---- MODULE Spec2Model ----
(***************************************************************************)
(* Model of the chatIRC daemon: connection readers, the server dispatcher, *)
(* the channel actors and the command handlers.                            *)
(*                                                                         *)
(* Byte strings are sequences of one-character strings, so "#a" is         *)
(* <<"#", "a">>.  The fixed human-readable texts of replies are kept as a  *)
(* one-element sequence holding the whole text; nothing inspects them.     *)
(* Option<T> is a record: None, or Some(v).                                *)
(***************************************************************************)
EXTENDS Integers, Sequences, FiniteSets, TLC

(***************************************************************************)
(* Bounds of the model.                                                    *)
(***************************************************************************)
NumPeers == 2
MaxQueue == 1
MaxMailbox == 1

PeerIds == 1 .. NumPeers

None == [tag |-> "None"]
Some(v) == [tag |-> "Some", val |-> v]

Text(t) == <<t>>

Host == Text("localhost")

(***************************************************************************)
(* Sequence helpers.                                                       *)
(***************************************************************************)
\* the elements of a set in the (unspecified but fixed) iteration order of
\* a hash set or hash map
RECURSIVE SeqOfSet(_)
SeqOfSet(S) ==
    IF S = {} THEN <<>>
    ELSE LET x == CHOOSE y \in S : TRUE
         IN <<x>> \o SeqOfSet(S \ {x})

EmptyMap == [x \in {} |-> x]
MapInsert(f, k, v) == [x \in DOMAIN f \cup {k} |-> IF x = k THEN v ELSE f[x]]
MapRemove(f, k) == [x \in DOMAIN f \ {k} |-> f[x]]

Range(s) == {s[i] : i \in 1 .. Len(s)}

(***************************************************************************)
(* util.rs                                                                 *)
(***************************************************************************)
LowerSeq == <<"a","b","c","d","e","f","g","h","i","j","k","l","m",
              "n","o","p","q","r","s","t","u","v","w","x","y","z">>
Lower == Range(LowerSeq)
Upper == {"A","B","C","D","E","F","G","H","I","J","K","L","M",
          "N","O","P","Q","R","S","T","U","V","W","X","Y","Z"}
Digit == {"0","1","2","3","4","5","6","7","8","9"}
\* 0x5B..0x60 and 0x7B..0x7D; "grave" stands for the character 0x60
Special == {"[", "\\", "]", "^", "_", "grave", "{", "|", "}"}

valid_nick_char(i, char) ==
    IF i = 0 THEN char \in Lower \cup Upper \cup Special
    ELSE char \in Lower \cup Upper \cup Digit \cup Special \cup {"-"}

\* the loop returns false at index 9 and at the first bad character
valid_nick(nick) ==
    \A k \in 1 .. Len(nick) : (k - 1) # 9 /\ valid_nick_char(k - 1, nick[k])

\* "bel" stands for the character 0x07
valid_channel(channel) ==
    \A i \in 1 .. Len(channel) :
        IF i = 1 THEN channel[i] \in {"#", "&"}
        ELSE channel[i] \notin {" ", "bel", ","}

verify_receiver(recv) ==
    IF valid_channel(recv) THEN [kind |-> "ChannelName", name |-> recv]
    ELSE IF valid_nick(recv) THEN [kind |-> "NickName", name |-> recv]
    ELSE [kind |-> "InvalidReceiver", name |-> recv]

from_parts(nick, name, host) == nick \o <<"!">> \o name \o <<"@">> \o host

\* first position >= j of subject s that holds ch, or Len(s)+1
RECURSIVE skip_until(_, _, _)
skip_until(s, j, ch) ==
    IF j > Len(s) THEN j
    ELSE IF s[j] = ch THEN j
    ELSE skip_until(s, j + 1, ch)

RECURSIVE matches_from(_, _, _, _)
matches_from(pat, i, s, j) ==
    IF i > Len(pat) THEN j > Len(s)
    ELSE IF pat[i] = "*"
         THEN IF i = Len(pat) THEN TRUE
              ELSE matches_from(pat, i + 1, s, skip_until(s, j, pat[i + 1]))
         ELSE IF j > Len(s) THEN FALSE
              ELSE IF pat[i] # s[j] THEN FALSE
              ELSE matches_from(pat, i + 1, s, j + 1)

\* HostMask::matches: self is the pattern, mask the string tested
matches(self, mask) == matches_from(self, 1, mask, 1)

(***************************************************************************)
(* channel/util.rs: modes and the mode parser                              *)
(***************************************************************************)
ChannelCreator == "O"
OperatorPrivilege == "o"
VoicePrivilege == "v"
AnonChannel == "a"
InviteOnly == "i"
Moderated == "m"
MemberOnly == "n"
Quiet == "q"
Private == "p"
Secret == "s"
ReOpFlag == "r"
TopicProtect == "t"
ChannelKey == "k"
UserLimit == "l"
BanMask == "b"
ExceptionMask == "e"
InvitationMask == "I"

ChannelMode == {ChannelCreator, OperatorPrivilege, VoicePrivilege, AnonChannel,
                InviteOnly, Moderated, MemberOnly, Quiet, Private, Secret,
                ReOpFlag, TopicProtect, ChannelKey, UserLimit, BanMask,
                ExceptionMask, InvitationMask}

Add == "Add"
Remove == "Remove"
Show == "Show"

has_parameter(mode) ==
    mode \in {ChannelKey, UserLimit, BanMask, ExceptionMask, InvitationMask}

\* the for loop taking a parameter for the modes of a Show group as well
RECURSIVE modes_group_show_consumes(_, _, _, _)
modes_group_show_consumes(letters, action, cur, acc) ==
    IF letters = <<>> THEN [current |-> cur, triples |-> acc]
    ELSE LET v == Head(letters) IN
         IF v \notin ChannelMode
         THEN modes_group_show_consumes(Tail(letters), action, cur, acc)
         ELSE IF has_parameter(v)
              THEN LET param == IF Len(cur) > 1 THEN Some(cur[2]) ELSE None
                       next == IF Len(cur) > 1 THEN Tail(cur) ELSE <<>>
                   IN modes_group_show_consumes(Tail(letters), action, next,
                          Append(acc, [action |-> action, mode |-> v, param |-> param]))
              ELSE modes_group_show_consumes(Tail(letters), action, cur,
                          Append(acc, [action |-> action, mode |-> v, param |-> None]))

\* The for loop over the letters of one group.  cur is the variable
\* `current`, acc the triples handed to the block so far.
RECURSIVE modes_group(_, _, _, _)
modes_group(letters, action, cur, acc) ==
    IF letters = <<>> THEN [current |-> cur, triples |-> acc]
    ELSE LET v == Head(letters) IN
         IF v \notin ChannelMode
         THEN modes_group(Tail(letters), action, cur, acc)
         ELSE IF has_parameter(v) /\ action # Show
              THEN LET param == IF Len(cur) > 1 THEN Some(cur[2]) ELSE None
                       next == IF Len(cur) > 1 THEN Tail(cur) ELSE <<>>
                   IN modes_group(Tail(letters), action, next,
                          Append(acc, [action |-> action, mode |-> v, param |-> param]))
              ELSE modes_group(Tail(letters), action, cur,
                          Append(acc, [action |-> action, mode |-> v, param |-> None]))

\* The outer loop.  Indexing current[0][0] fails on an empty token: the
\* result then has failed = TRUE and holds the triples applied before.
RECURSIVE modes_loop(_, _)
modes_loop(current, acc) ==
    IF current = <<>> \/ current[1] = <<>>
    THEN [triples |-> acc, failed |-> TRUE]
    ELSE LET first == current[1][1]
             action == IF first = "+" THEN Add
                       ELSE IF first = "-" THEN Remove ELSE Show
             offset == IF first \in {"+", "-"} THEN 1 ELSE 0
             g == modes_group(SubSeq(current[1], offset + 1, Len(current[1])),
                              action, current, acc)
         IN IF Len(g.current) > 1
            THEN modes_loop(Tail(g.current), g.triples)
            ELSE [triples |-> g.triples, failed |-> FALSE]

modes_do(slice) == modes_loop(slice, <<>>)

(***************************************************************************)
(* msg/raw.rs and con/client.rs: messages as the handlers build them       *)
(***************************************************************************)
\* RawMessage::new(command, params, prefix)
RawMessage(command, params, prefix) ==
    [prefix |-> prefix, command |-> command, params |-> params]

\* Peer::send_response: the reply is addressed with the nick the shared
\* UserInfo holds when the reply is built.  inf is the UserInfo table.
send_response(inf, id, code, params, origin) ==
    [to |-> id,
     msg |-> RawMessage(code, <<inf[id].nick>> \o params, Some(origin))]

\* Peer::send_msg
send_msg(id, msg) == [to |-> id, msg |-> msg]

\* RawMessage::set_prefix, on the message as it goes out on the wire
set_prefix(msg, prefix) == [msg EXCEPT !.prefix = Some(prefix)]

(***************************************************************************)
(* channel/member.rs                                                       *)
(***************************************************************************)
decoration(flags) ==
    IF OperatorPrivilege \in flags THEN <<"@">>
    ELSE IF VoicePrivilege \in flags THEN <<"+">>
    ELSE <<>>

Member_new(inf, id) ==
    [id |-> id,
     nick |-> inf[id].nick,
     hostname |-> inf[id].hostname,
     username |-> inf[id].username,
     realname |-> inf[id].realname,
     mask |-> inf[id].hostmask,
     decorated_nick |-> inf[id].nick,
     flags |-> {}]

promote(member, flag) ==
    LET fl == member.flags \cup {flag}
    IN [member EXCEPT !.flags = fl, !.decorated_nick = decoration(fl) \o member.nick]

demote(member, flag) ==
    LET fl == member.flags \ {flag}
    IN [member EXCEPT !.flags = fl, !.decorated_nick = decoration(fl) \o member.nick]

is_op(member) == OperatorPrivilege \in member.flags

has_voice(member) ==
    VoicePrivilege \in member.flags \/ OperatorPrivilege \in member.flags

mask_matches_any(member, masks) ==
    \E mask \in masks : matches(mask, member.mask)

(***************************************************************************)
(* channel/mod.rs                                                          *)
(***************************************************************************)
Channel_new(name, server_name) ==
    [name |-> name,
     server_name |-> server_name,
     topic |-> <<>>,
     password |-> None,
     flags |-> {},
     limit |-> None,
     members |-> EmptyMap,
     nicknames |-> EmptyMap,
     ban_masks |-> {},
     except_masks |-> {},
     invite_masks |-> {}]

member_count(channel) == Cardinality(DOMAIN channel.members)

\* the members in the iteration order of the map
members(channel) ==
    LET keys == SeqOfSet(DOMAIN channel.members)
    IN [i \in 1 .. Len(keys) |-> channel.members[keys[i]]]

add_flag(channel, flag) == [channel EXCEPT !.flags = @ \cup {flag}]
remove_flag(channel, flag) == [channel EXCEPT !.flags = @ \ {flag}]
has_flag(channel, flag) == flag \in channel.flags

\* Option<&Member>: the member stored under the nick of client_id
member_with_id(channel, client_id) ==
    IF client_id \in DOMAIN channel.nicknames
    THEN IF channel.nicknames[client_id] \in DOMAIN channel.members
         THEN Some(channel.members[channel.nicknames[client_id]])
         ELSE None
    ELSE None

add_member(channel, member) ==
    IF member_with_id(channel, member.id) # None
    THEN channel
    ELSE [channel EXCEPT
            !.nicknames = MapInsert(@, member.id, member.nick),
            !.members = MapInsert(@, member.nick, member)]

\* remove_member that drops the id but leaves the entry in members
remove_member_nick_only(channel, id) ==
    IF id \notin DOMAIN channel.nicknames
    THEN channel
    ELSE [channel EXCEPT !.nicknames = MapRemove(@, id)]

remove_member(channel, id) ==
    IF id \notin DOMAIN channel.nicknames
    THEN channel
    ELSE [channel EXCEPT
            !.nicknames = MapRemove(@, id),
            !.members = MapRemove(@, channel.nicknames[id])]

\* broadcast that stops after the first member
broadcast_first_member(channel, message) ==
    LET ms == members(channel)
    IN [i \in 1 .. (IF ms = <<>> THEN 0 ELSE 1) |-> send_msg(ms[i].id, message)]

broadcast(channel, message) ==
    LET ms == members(channel)
    IN [i \in 1 .. Len(ms) |-> send_msg(ms[i].id, message)]

\* Channel::send_response
channel_send_response(inf, channel, client, command, params) ==
    send_response(inf, client, command, params, channel.server_name)

\* Member::send_response
member_send_response(inf, member, command, params) ==
    send_response(inf, member.id, command, params, Host)

\* ListSender::feed_line: the line is preceded by the channel's name
feed_line(inf, channel, receiver, list_code, line) ==
    send_response(inf, receiver, list_code, <<channel.name>> \o line,
                  channel.server_name)

\* the drop of a ListSender sends the end of the list
end_of_list(inf, channel, receiver, end_code) ==
    send_response(inf, receiver, end_code, <<channel.name>>, channel.server_name)

(***************************************************************************)
(* msg/handlers/lists.rs                                                   *)
(***************************************************************************)
handle_who(inf, channel, client, mask, op_only) ==
    IF (has_flag(channel, Private) \/ has_flag(channel, Secret))
       /\ member_with_id(channel, client) = None
    THEN <<channel_send_response(inf, channel, client, "RPL_ENDOFWHO",
              <<mask, Text("End of WHO list")>>)>>
    ELSE LET listed == SelectSeq(members(channel), LAMBDA m : ~op_only \/ is_op(m))
         IN [i \in 1 .. Len(listed) |->
               feed_line(inf, channel, client, "RPL_WHOREPLY",
                   <<channel.name, listed[i].username, listed[i].hostname,
                     channel.server_name, listed[i].nick,
                     <<"H">> \o decoration(listed[i].flags),
                     <<"0", " ">> \o listed[i].realname>>)]
            \o <<end_of_list(inf, channel, client, "RPL_ENDOFWHO")>>

\* handle_names that sends the end of the list only
handle_names_end_only(inf, channel, proxy) ==
    <<channel_send_response(inf, channel, proxy, "RPL_ENDOFNAMES",
          <<channel.name, Text("End of /NAMES list")>>)>>

handle_names(inf, channel, proxy) ==
    LET ms == members(channel)
    IN [i \in 1 .. Len(ms) |->
          channel_send_response(inf, channel, proxy, "RPL_NAMREPLY",
              <<Text("= ") \o channel.name, ms[i].decorated_nick>>)]
       \o <<channel_send_response(inf, channel, proxy, "RPL_ENDOFNAMES",
              <<channel.name, Text("End of /NAMES list")>>)>>

(***************************************************************************)
(* msg/handlers/join.rs                                                    *)
(* A handler run by a channel actor yields the new channel and the         *)
(* messages it put on write queues, in order.                              *)
(***************************************************************************)
\* the key check letting a JOIN without any key through
key_rejected_only_wrong(channel, password) ==
    channel.password # None /\ password # None /\ password # channel.password

key_rejected(channel, password) ==
    channel.password # None /\ password # channel.password

\* the ban check without the exception masks
banned_no_except(channel, member) ==
    mask_matches_any(member, channel.ban_masks)

banned(channel, member) ==
    mask_matches_any(member, channel.ban_masks)
    /\ ~mask_matches_any(member, channel.except_masks)

not_invited(channel, member) ==
    has_flag(channel, InviteOnly)
    /\ ~mask_matches_any(member, channel.invite_masks)

limit_reached(channel) ==
    has_flag(channel, UserLimit)
    /\ channel.limit # None
    /\ member_count(channel) + 1 >= channel.limit.val

\* the creator flags given to every joiner
first_user_always(channel, member) ==
    promote(promote(member, ChannelCreator), OperatorPrivilege)

\* "Give op to first user"
first_user(channel, member) ==
    IF member_count(channel) = 0
    THEN promote(promote(member, ChannelCreator), OperatorPrivilege)
    ELSE member

handle_join(inf, channel, member, password) ==
    IF key_rejected(channel, password)
    THEN [channel |-> channel,
          out |-> <<member_send_response(inf, member, "ERR_BADCHANNELKEY",
                      <<channel.name, Text("Cannot join channel (+k)")>>)>>]
    ELSE IF member_with_id(channel, member.id) # None
    THEN [channel |-> channel, out |-> <<>>]
    ELSE IF banned(channel, member)
    THEN [channel |-> channel,
          out |-> <<channel_send_response(inf, channel, member.id,
                      "ERR_BANNEDFROMCHAN", <<Text("Cannot join channel (+b)")>>)>>]
    ELSE IF not_invited(channel, member)
    THEN [channel |-> channel,
          out |-> <<channel_send_response(inf, channel, member.id,
                      "ERR_INVITEONLYCHAN", <<Text("Cannot join channel (+i)")>>)>>]
    ELSE IF limit_reached(channel)
    THEN [channel |-> channel,
          out |-> <<channel_send_response(inf, channel, member.id,
                      "ERR_CHANNELISFULL", <<Text("Cannot join channel (+l)")>>)>>]
    ELSE LET m == first_user(channel, member)
             msg == RawMessage("JOIN", <<channel.name>>, Some(m.nick))
             joined == add_member(channel, m)
             stored == member_with_id(joined, m.id).val
         IN [channel |-> joined,
             out |-> broadcast(joined, msg)
                     \o <<member_send_response(inf, stored, "RPL_NOTOPIC",
                            <<joined.name, Text("No topic set.")>>)>>
                     \o handle_names(inf, joined, stored.id)]

(***************************************************************************)
(* msg/handlers/part.rs                                                    *)
(***************************************************************************)
\* do_quit_leave that announces the departure and keeps the member
do_quit_leave_no_remove(inf, channel, client, command, reason) ==
    LET found == member_with_id(channel, client)
    IN IF found # None
       THEN [channel |-> channel,
             out |-> broadcast(channel,
                        RawMessage(command, <<channel.name>>, Some(found.val.nick)))]
       ELSE [channel |-> channel, out |-> <<>>]

do_quit_leave(inf, channel, client, command, reason) ==
    LET found == member_with_id(channel, client)
    IN IF found # None
       THEN LET payload == IF reason = None THEN <<channel.name>>
                           ELSE <<channel.name, reason.val>>
                msg == RawMessage(command, payload, Some(found.val.nick))
            IN [channel |-> remove_member(channel, client),
                out |-> broadcast(channel, msg)]
       ELSE IF command = "PART"
            THEN [channel |-> channel,
                  out |-> <<channel_send_response(inf, channel, client,
                              "ERR_NOTONCHANNEL",
                              <<channel.name, Text("You are not on this channel.")>>)>>]
            ELSE [channel |-> channel, out |-> <<>>]

(***************************************************************************)
(* msg/handlers/msg.rs                                                     *)
(***************************************************************************)
\* the loop over channel.members() that skips the sender
send_to_others(channel, sender, message) ==
    LET IsOther(m) == m.id # sender.id
        ms == SelectSeq(members(channel), IsOther)
    IN [i \in 1 .. Len(ms) |-> send_msg(ms[i].id, message)]

\* handle_msg that sends the message to every member, the sender included
handle_msg_echo(channel, client_id, message) ==
    [channel |-> channel, out |-> broadcast(channel, message)]

handle_msg(channel, client_id, message) ==
    LET maybe_member == member_with_id(channel, client_id)
    IN [channel |-> channel,
        out |->
          IF has_flag(channel, MemberOnly) \/ has_flag(channel, VoicePrivilege)
          THEN IF maybe_member # None
               THEN IF has_flag(channel, VoicePrivilege)
                       /\ ~has_voice(maybe_member.val)
                    THEN <<>>
                    ELSE send_to_others(channel, maybe_member.val, message)
               ELSE <<>>
          ELSE IF maybe_member # None
               THEN send_to_others(channel, maybe_member.val, message)
               ELSE broadcast(channel, message)]

(***************************************************************************)
(* msg/handlers/simple.rs                                                  *)
(***************************************************************************)
set_topic(channel, topic) == [channel EXCEPT !.topic = topic]

\* Topic::set that lets every member set the topic
Topic_set_any_member(inf, channel, proxy, topic) ==
    LET found == member_with_id(channel, proxy)
    IN IF found # None
       THEN [channel |-> set_topic(channel, topic),
             out |-> broadcast(channel,
                        RawMessage("TOPIC", <<channel.name, topic>>,
                                   Some(found.val.nick)))]
       ELSE [channel |-> channel,
             out |-> <<send_response(inf, proxy, "ERR_NOTONCHANNEL",
                         <<channel.name, Text("You are not on this channel.")>>,
                         channel.server_name)>>]

Topic_set(inf, channel, proxy, topic) ==
    LET found == member_with_id(channel, proxy)
    IN IF found # None
       THEN IF has_flag(channel, TopicProtect) /\ ~is_op(found.val)
            THEN [channel |-> channel,
                  out |-> <<send_response(inf, proxy, "ERR_CHANOPRIVSNEEDED",
                              <<channel.name,
                                Text("You are not a channel operator (channel is +t).")>>,
                              channel.server_name)>>]
            ELSE [channel |-> set_topic(channel, topic),
                  out |-> broadcast(channel,
                             RawMessage("TOPIC", <<channel.name, topic>>,
                                        Some(found.val.nick)))]
       ELSE [channel |-> channel,
             out |-> <<send_response(inf, proxy, "ERR_NOTONCHANNEL",
                         <<channel.name, Text("You are not on this channel.")>>,
                         channel.server_name)>>]

(***************************************************************************)
(* msg/handlers/mode.rs                                                    *)
(***************************************************************************)
FlagModes == {AnonChannel, InviteOnly, Moderated, MemberOnly, Quiet, Private,
              Secret, ReOpFlag, TopicProtect}

action_sign(action) ==
    IF action = Add THEN <<"+">> ELSE IF action = Remove THEN <<"-">> ELSE <<>>

broadcast_change(channel, nick, action, flag, param) ==
    LET flag_str == action_sign(action) \o <<flag>>
    IN broadcast(channel,
          RawMessage("MODE",
              IF param # None THEN <<channel.name, flag_str, param.val>>
              ELSE <<channel.name, flag_str>>,
              Some(nick)))

\* from_str::<uint>: a non-empty run of decimal digits
DigitValue(d) ==
    CASE d = "0" -> 0 [] d = "1" -> 1 [] d = "2" -> 2 [] d = "3" -> 3
      [] d = "4" -> 4 [] d = "5" -> 5 [] d = "6" -> 6 [] d = "7" -> 7
      [] d = "8" -> 8 [] d = "9" -> 9

RECURSIVE digits_value(_, _)
digits_value(ds, acc) ==
    IF ds = <<>> THEN acc
    ELSE digits_value(Tail(ds), acc * 10 + DigitValue(Head(ds)))

from_str_uint(bytes) ==
    IF bytes # <<>> /\ \A i \in 1 .. Len(bytes) : bytes[i] \in Digit
    THEN Some(digits_value(bytes, 0))
    ELSE None

\* uint::to_string
RECURSIVE uint_to_string(_)
uint_to_string(n) ==
    LET d == CHOOSE c \in Digit : DigitValue(c) = n % 10
    IN IF n < 10 THEN <<d>> ELSE Append(uint_to_string(n \div 10), d)

\* the reply to a list query: one line per mask, then the end code
list_reply(inf, channel, proxy, list_code, end_code, masks) ==
    LET ms == SeqOfSet(masks)
    IN [i \in 1 .. Len(ms) |->
          send_response(inf, proxy, list_code, <<channel.name, ms[i]>>,
                        channel.server_name)]
       \o <<send_response(inf, proxy, end_code, <<channel.name>>,
                          channel.server_name)>>

\* the body of the block handed to modes_do, for one triple
mode_block(inf, channel, proxy, peer_nick, action, mode, parameter) ==
    IF mode \in FlagModes
    THEN IF action = Add
         THEN LET c == add_flag(channel, mode)
              IN [channel |-> c,
                  out |-> broadcast_change(c, peer_nick, action, mode, None)]
         ELSE IF action = Remove
         THEN LET c == remove_flag(channel, mode)
              IN [channel |-> c,
                  out |-> broadcast_change(c, peer_nick, action, mode, None)]
         ELSE [channel |-> channel, out |-> <<>>]
    ELSE IF mode \in {OperatorPrivilege, VoicePrivilege}
    THEN IF parameter # None
            /\ parameter.val \in DOMAIN channel.members
            /\ action # Show
         THEN LET member == channel.members[parameter.val]
                  changed == IF action = Add THEN promote(member, mode)
                             ELSE demote(member, mode)
                  c == [channel EXCEPT !.members[parameter.val] = changed]
              IN [channel |-> c,
                  out |-> broadcast_change(c, peer_nick, action, mode,
                                           Some(changed.nick))]
         ELSE [channel |-> channel, out |-> <<>>]
    ELSE IF mode = ChannelKey
    THEN IF action = Add
         THEN IF parameter # None
              THEN LET c == [channel EXCEPT !.password = parameter]
                   IN [channel |-> c,
                       out |-> broadcast_change(c, peer_nick, action, mode, None)]
              ELSE [channel |-> channel, out |-> <<>>]
         ELSE IF action = Remove
         THEN LET c == [channel EXCEPT !.password = None]
              IN [channel |-> c,
                  out |-> broadcast_change(c, peer_nick, action, mode, None)]
         ELSE [channel |-> channel, out |-> <<>>]
    ELSE IF mode = UserLimit
    THEN IF action = Add
         THEN LET limit == IF parameter = None THEN None
                           ELSE from_str_uint(parameter.val)
              IN IF limit # None
                 THEN LET c == [channel EXCEPT !.limit = limit]
                      IN [channel |-> c,
                          out |-> broadcast_change(c, peer_nick, action, mode,
                                      Some(uint_to_string(limit.val)))]
                 ELSE [channel |-> channel, out |-> <<>>]
         ELSE IF action = Remove
         THEN LET c == [channel EXCEPT !.limit = None]
              IN [channel |-> c,
                  out |-> broadcast_change(c, peer_nick, action, mode, None)]
         ELSE [channel |-> channel, out |-> <<>>]
    ELSE IF mode \in {BanMask, ExceptionMask, InvitationMask}
    THEN IF parameter # None
         THEN LET host_mask == parameter.val
                  c == CASE mode = BanMask /\ action = Add ->
                              [channel EXCEPT !.ban_masks = @ \cup {host_mask}]
                         [] mode = BanMask /\ action = Remove ->
                              [channel EXCEPT !.ban_masks = @ \ {host_mask}]
                         [] mode = ExceptionMask /\ action = Add ->
                              [channel EXCEPT !.except_masks = @ \cup {host_mask}]
                         [] mode = ExceptionMask /\ action = Remove ->
                              [channel EXCEPT !.except_masks = @ \ {host_mask}]
                         [] mode = InvitationMask /\ action = Add ->
                              [channel EXCEPT !.invite_masks = @ \cup {host_mask}]
                         [] mode = InvitationMask /\ action = Remove ->
                              [channel EXCEPT !.invite_masks = @ \ {host_mask}]
                         [] OTHER -> channel
              IN [channel |-> c, out |-> <<>>]
         ELSE [channel |-> channel,
               out |-> CASE mode = BanMask ->
                            list_reply(inf, channel, proxy, "RPL_BANLIST",
                                "RPL_ENDOFBANLIST", channel.ban_masks)
                         [] mode = ExceptionMask ->
                            list_reply(inf, channel, proxy, "RPL_EXCEPTLIST",
                                "RPL_ENDOFEXCEPTLIST", channel.except_masks)
                         [] mode = InvitationMask ->
                            list_reply(inf, channel, proxy, "RPL_INVITELIST",
                                "RPL_ENDOFINVITELIST", channel.invite_masks)]
    ELSE [channel |-> channel, out |-> <<>>]

\* the block applied to the triples of modes_do, left to right
RECURSIVE apply_modes(_, _, _, _, _, _)
apply_modes(inf, channel, proxy, peer_nick, triples, out) ==
    IF triples = <<>> THEN [channel |-> channel, out |-> out]
    ELSE LET t == Head(triples)
             r == mode_block(inf, channel, proxy, peer_nick,
                             t.action, t.mode, t.param)
         IN apply_modes(inf, r.channel, proxy, peer_nick, Tail(triples),
                        out \o r.out)

\* the privilege check accepting every member
sender_is_member(channel, proxy) ==
    member_with_id(channel, proxy) # None

sender_is_op(channel, proxy) ==
    LET found == member_with_id(channel, proxy)
    IN IF found # None THEN is_op(found.val) ELSE FALSE

\* channel flags as a string, in the iteration order of the set
flags_string(channel) == SeqOfSet(channel.flags)

\* params are the parameters of the MODE message, the target first.
\* failed tells that the handler stopped on an out-of-bounds index.
handle_mode(inf, channel, proxy, params) ==
    LET peer_nick == inf[proxy].nick
    IN IF Len(params) > 1
       THEN IF ~sender_is_op(channel, proxy)
            THEN [channel |-> channel,
                  out |-> <<send_response(inf, proxy, "ERR_CHANOPRIVSNEEDED",
                              <<channel.name, Text("You are not a channel operator")>>,
                              peer_nick)>>,
                  failed |-> FALSE]
            ELSE LET parsed == modes_do(Tail(params))
                     r == apply_modes(inf, channel, proxy, peer_nick,
                                      parsed.triples, <<>>)
                 IN [channel |-> r.channel, out |-> r.out,
                     failed |-> parsed.failed]
       ELSE [channel |-> channel,
             out |-> <<send_response(inf, proxy, "RPL_CHANNELMODEIS",
                         <<channel.name, <<"+">> \o flags_string(channel)>>,
                         channel.server_name)>>,
             failed |-> FALSE]

(***************************************************************************)
(* State                                                                   *)
(***************************************************************************)
VARIABLES
    phase,        \* per connection: "new", "open" (reader running), "closed"
    info,         \* the shared UserInfo of every peer
    connections,  \* Server.connections (the ids)
    users,        \* Server.users (the ids)
    nicks,        \* Server.nicks: nick -> id
    channels,     \* Server.channels: the names that have a proxy
    chan,         \* the Channel owned by the actor of each name
    mailbox,      \* the event queue of each channel actor
    serverq,      \* the event queue of the server
    sent,         \* the messages the last step put on write queues, in order
    arg,          \* the input of the pure function under test
    result        \* its value, None before the call

vars == <<phase, info, connections, users, nicks, channels, chan, mailbox,
          serverq, sent, arg, result>>

(***************************************************************************)
(* con/client.rs: UserInfo                                                 *)
(***************************************************************************)
Star == <<"*">>

\* the reverse-DNS name of the socket of peer p
hostname_of(p) == IF p % 2 = 1 THEN <<"h">> ELSE <<"g">>

UserInfo_new(hostname) ==
    [nick |-> Star,
     username |-> <<>>,
     realname |-> Text("John Doe"),
     hostname |-> hostname,
     hostmask |-> from_parts(Star, Star, hostname),
     status |-> "Connected"]

update_mask(ui) ==
    [ui EXCEPT !.hostmask = from_parts(ui.nick, ui.username, ui.hostname)]

set_nick(ui, nick) == update_mask([ui EXCEPT !.nick = nick])
set_username(ui, name) == update_mask([ui EXCEPT !.username = name])
set_realname(ui, name) == update_mask([ui EXCEPT !.realname = name])

(***************************************************************************)
(* The commands the clients send, as the handlers from_message builds.     *)
(***************************************************************************)
ChanA == <<"#", "a">>
ChanNames == {ChanA}
NickMenu == {<<"a">>, <<"b">>}
KeyS == <<"s">>
MaskG == <<"*", "!", "*", "@", "g">>
MaskB == <<"b", "!", "*", "@", "*">>

\* Join::from_message: the i-th key goes with the i-th channel
Join_from_message(targets, keys) ==
    [cmd |-> "JOIN", targets |-> targets,
     passwords |-> [i \in 1 .. Len(targets) |->
                      IF Len(keys) >= i THEN Some(keys[i]) ELSE None]]

\* Mode::from_message keeps the raw message; params[1] is the receiver
Mode_from_message(params) ==
    [cmd |-> "MODE", receiver |-> params[1], params |-> params]

ModeStrings ==
    {<< <<"+", "k">>, KeyS >>, << <<"-", "k">> >>,
     << <<"+", "l">>, <<"1">> >>,
     << <<"+", "b">>, MaskG >>, << <<"+", "e">>, MaskB >>,
     << <<"+", "o">>, <<"b">> >>, << <<"-", "o">>, <<"a">> >>}

\* the targets of a PRIVMSG as they stand in its first parameter
RECURSIVE JoinComma(_)
JoinComma(targets) ==
    IF Len(targets) <= 1 THEN (IF targets = <<>> THEN <<>> ELSE targets[1])
    ELSE targets[1] \o <<",">> \o JoinComma(Tail(targets))

\* Msg::from_message for a message with more than one parameter
Msg_from_message(command, targets, text) ==
    [cmd |-> command,
     raw |-> RawMessage(command, <<JoinComma(targets), text>>, None),
     receiver |-> [i \in 1 .. Len(targets) |-> verify_receiver(targets[i])],
     message |-> text]

\* Topic::from_message for a message that names a valid channel: the topic
\* is the second parameter, or the empty string when there is none
Topic_from_message(params) ==
    [cmd |-> "TOPIC",
     raw |-> RawMessage("TOPIC", params, None),
     channel |-> params[1],
     topic |-> IF Len(params) >= 2 THEN params[2] ELSE <<>>]

\* Names::from_message for a message with a parameter
Names_from_message(targets) ==
    [cmd |-> "NAMES",
     raw |-> RawMessage("NAMES", <<JoinComma(targets)>>, None),
     receivers |-> [i \in 1 .. Len(targets) |-> verify_receiver(targets[i])]]

\* Who::from_message: the mask is "0" when the message has no parameter
Who_from_message(params) ==
    [cmd |-> "WHO",
     raw |-> RawMessage("WHO", params, None),
     mask |-> IF Len(params) >= 1 THEN params[1] ELSE <<"0">>,
     op_only |-> IF Len(params) >= 2 THEN params[2] = <<"o">> ELSE FALSE]

\* Ping::from_message and Pong::from_message
Ping_from_message(command, params) ==
    [cmd |-> command,
     raw |-> RawMessage(command, params, None),
     payload |-> IF Len(params) >= 1 THEN Some(params[1]) ELSE None]

RegMenu ==
    {[cmd |-> "NICK", nick |-> n] : n \in NickMenu}
    \cup {[cmd |-> "USER", username |-> <<"u">>, realname |-> Text("Real Name")]}
    \cup {[cmd |-> "QUIT", reason |-> None]}

JoinPartMenu ==
    {Join_from_message(<<c>>, ks) : c \in ChanNames, ks \in {<<>>, <<KeyS>>}}
    \cup {[cmd |-> "PART", channels |-> <<c>>, reason |-> None] : c \in ChanNames}

ModeMenu ==
    {Mode_from_message(<<c>> \o ms) : c \in ChanNames, ms \in ModeStrings}

\* two channels, for the users that are in several
ChanB == <<"#", "b">>
QuitChans == {ChanA, ChanB}

QuitMenu ==
    {Join_from_message(<<c>>, <<>>) : c \in QuitChans}
    \cup {[cmd |-> "QUIT", reason |-> None]}

LeaveMenu ==
    {Join_from_message(<<ChanA, ChanB>>, <<>>), [cmd |-> "QUIT", reason |-> None]}

MsgMenu ==
    {Msg_from_message(command, <<c>>, Text("hi")) :
        command \in {"PRIVMSG", "NOTICE"}, c \in ChanNames}
    \cup {Msg_from_message("PRIVMSG", << <<"b">> >>, Text("hi"))}

MsgModeMenu ==
    {Mode_from_message(<<c, ms>>) :
        c \in ChanNames, ms \in {<<"+", "m">>, <<"-", "n">>}}

TopicX == <<"x">>
TopicY == <<"y">>

TopicMenu ==
    {Topic_from_message(<<c>>) : c \in ChanNames}
    \cup {Topic_from_message(<<c, t>>) : c \in ChanNames, t \in {TopicX, TopicY}}

TopicModeMenu ==
    {Mode_from_message(<<c, ms>>) :
        c \in ChanNames, ms \in {<<"-", "t">>, <<"+", "t">>}}

ListMenu ==
    {Names_from_message(<<c>>) : c \in ChanNames}
    \cup {Who_from_message(ps) :
            ps \in {<<ChanA>>, <<ChanA, <<"o">>>>, <<ChanB>>, <<>>}}

ListModeMenu ==
    {Mode_from_message(<<c, ms>>) :
        c \in ChanNames, ms \in {<<"+", "s">>, <<"+", "p">>, <<"-", "s">>}}

PingMenu ==
    {Ping_from_message(command, <<t>>) :
        command \in {"PING", "PONG"}, t \in {TopicX, TopicY}}

Menu == RegMenu \cup JoinPartMenu \cup ModeMenu

\* the state after construction: nobody has connected
Init ==
    /\ phase = [p \in PeerIds |-> "new"]
    /\ info = [p \in PeerIds |-> UserInfo_new(hostname_of(p))]
    /\ connections = {}
    /\ users = {}
    /\ nicks = EmptyMap
    /\ channels = {}
    /\ chan = EmptyMap
    /\ mailbox = EmptyMap
    /\ serverq = <<>>
    /\ sent = <<>>
    /\ arg = <<>>
    /\ result = None

\* the nick and the user name peer p registers with in InitRegistered
nick_of(p) == <<LowerSeq[p]>>

registered_info(p) ==
    [set_realname(set_username(set_nick(UserInfo_new(hostname_of(p)), nick_of(p)),
                               <<"u">>), Text("Real Name"))
        EXCEPT !.status = "Registered"]

\* every peer has connected and completed NICK and USER; no channel exists
InitRegistered ==
    /\ phase = [p \in PeerIds |-> "open"]
    /\ info = [p \in PeerIds |-> registered_info(p)]
    /\ connections = PeerIds
    /\ users = PeerIds
    /\ nicks = [n \in {nick_of(p) : p \in PeerIds} |->
                  CHOOSE p \in PeerIds : nick_of(p) = n]
    /\ channels = {}
    /\ chan = EmptyMap
    /\ mailbox = EmptyMap
    /\ serverq = <<>>
    /\ sent = <<>>
    /\ arg = <<>>
    /\ result = None

(***************************************************************************)
(* con/mod.rs: Connection::listen and the reader task                      *)
(***************************************************************************)
\* Connection::listen with the reader task spawned before Connected is
\* sent: the reader can send while the server's queue has no Connected
AcceptUpTo_reader_first(p, n) ==
    /\ phase[p] = "new"
    /\ Len(serverq) < n
    /\ phase' = [phase EXCEPT ![p] = "open"]
    /\ \E handler \in RegMenu :
          serverq' = Append(serverq,
              [type |-> "MessageReceived", id |-> p, handler |-> handler])
    /\ sent' = <<>>
    /\ UNCHANGED <<info, connections, users, nicks, channels, chan, mailbox>>
    /\ UNCHANGED <<arg, result>>

\* Connected is sent before the reader task is spawned; n is the number of
\* events the server's queue holds at most
AcceptUpTo(p, n) ==
    /\ phase[p] = "new"
    /\ Len(serverq) < n
    /\ phase' = [phase EXCEPT ![p] = "open"]
    /\ serverq' = Append(serverq, [type |-> "Connected", id |-> p])
    /\ sent' = <<>>
    /\ UNCHANGED <<info, connections, users, nicks, channels, chan, mailbox>>
    /\ UNCHANGED <<arg, result>>

Accept(p) == AcceptUpTo(p, MaxQueue)

\* the reader task, for the lines whose handlers are in menu
ReaderUpTo(p, menu, n) ==
    /\ phase[p] = "open"
    /\ Len(serverq) < n
    /\ \E handler \in menu :
          serverq' = Append(serverq,
              [type |-> "MessageReceived", id |-> p, handler |-> handler])
    /\ sent' = <<>>
    /\ UNCHANGED <<phase, info, connections, users, nicks, channels, chan, mailbox>>
    /\ UNCHANGED <<arg, result>>

ReaderOf(p, menu) == ReaderUpTo(p, menu, MaxQueue)

\* msg::get_handler answering Err(Some(reply)): the errors of
\* Nick::from_message, User::from_message and Topic::from_message for a
\* line without parameters
handler_error(command) ==
    CASE command = "NICK" ->
            RawMessage("ERR_NONICKNAMEGIVEN",
                <<Star, Text("no nickname given")>>, None)
      [] command = "USER" ->
            RawMessage("ERR_NEEDMOREPARAMS",
                <<Star, Text("USER"), Text("not enought params given")>>, None)
      [] command = "TOPIC" ->
            RawMessage("ERR_NEEDMOREPARAMS",
                <<Star, Text("TOPIC"), Text("no channel name given")>>, None)

ErrorLines == {"NICK", "USER", "TOPIC"}

\* the reader task on a line whose handler cannot be built: the reply gets
\* the hostname of the client as prefix and goes to the client's own queue
ReaderError(p) ==
    /\ phase[p] = "open"
    /\ \E command \in ErrorLines :
          sent' = <<send_msg(p, set_prefix(handler_error(command), hostname_of(p)))>>
    /\ UNCHANGED <<phase, info, connections, users, nicks, channels, chan, mailbox>>
    /\ UNCHANGED <<serverq, arg, result>>

Reader(p) == ReaderOf(p, Menu)

(***************************************************************************)
(* The server: directories and the handlers' invoke methods.  A handler    *)
(* maps the server's state st to the state after it; st.sends are the      *)
(* events it sent through channel proxies and st.out the messages it put   *)
(* on write queues.                                                        *)
(***************************************************************************)
ServerState ==
    [info |-> info, connections |-> connections, users |-> users,
     nicks |-> nicks, phase |-> phase, sends |-> <<>>, out |-> <<>>]

\* Server::valid_nick
server_valid_nick(nick) == valid_nick(nick)

\* Server::send_welcome_msg
send_welcome_msg(st, origin) ==
    [st EXCEPT !.out = Append(@,
        send_response(st.info, origin, "RPL_WELCOME",
                      <<Text("Welcome to the network")>>, Host))]

\* Server::add_user
add_user(st, origin) ==
    [st EXCEPT !.nicks = MapInsert(@, st.info[origin].nick, origin),
               !.users = @ \cup {origin}]

\* Server::close_connection: the socket is closed, so the reader stops
close_connection(st, origin) ==
    [st EXCEPT !.connections = @ \ {origin},
               !.users = @ \ {origin},
               !.nicks = MapRemove(@, st.info[origin].nick),
               !.phase[origin] = "closed"]

(***************************************************************************)
(* msg/handlers/registration.rs                                            *)
(***************************************************************************)
\* try_register without the test of the registration status
try_register_any_status(st, origin) ==
    IF st.info[origin].nick \in DOMAIN st.nicks
    THEN [st EXCEPT !.out = Append(@,
            send_response(st.info, origin, "ERR_ALREADYREGISTRED",
                <<Text("somebody already registered with the same nickname")>>,
                Host))]
    ELSE add_user(send_welcome_msg(st, origin), origin)

try_register(st, origin) ==
    IF st.info[origin].nick \in DOMAIN st.nicks
    THEN [st EXCEPT !.out = Append(@,
            send_response(st.info, origin, "ERR_ALREADYREGISTRED",
                <<Text("somebody already registered with the same nickname")>>,
                Host))]
    ELSE IF st.info[origin].status = "Registered"
    THEN add_user(send_welcome_msg(st, origin), origin)
    ELSE st

\* Nick::invoke without the lookup of the new nick in nicks
Nick_invoke_unchecked(st, origin, h) ==
    IF server_valid_nick(h.nick)
    THEN try_register([st EXCEPT !.info[origin] = set_nick(@, h.nick)], origin)
    ELSE st

Nick_invoke(st, origin, h) ==
    IF h.nick \in DOMAIN st.nicks
    THEN [st EXCEPT !.out = Append(@,
            send_response(st.info, origin, "ERR_NICKNAMEINUSE",
                <<h.nick, Text("nickname in use")>>, Host))]
    ELSE IF server_valid_nick(h.nick)
    THEN try_register([st EXCEPT !.info[origin] = set_nick(@, h.nick)], origin)
    ELSE st

User_invoke(st, origin, h) ==
    LET st1 == [st EXCEPT !.info[origin] =
                   [set_realname(set_username(@, h.username), h.realname)
                       EXCEPT !.status = "Registered"]]
    IN IF server_valid_nick(st1.info[origin].nick)
       THEN try_register(st1, origin)
       ELSE st1

(***************************************************************************)
(* invoke of the handlers that drive channel actors                        *)
(***************************************************************************)
\* join.rs: the channel a JOIN creates when the name has no proxy
new_channel(name) ==
    add_flag(add_flag(Channel_new(name, Host), TopicProtect), MemberOnly)

Join_invoke(st, origin, h) ==
    [st EXCEPT !.sends = @ \o
        [i \in 1 .. Len(h.targets) |->
            [channel |-> h.targets[i], create |-> TRUE,
             event |-> [fn |-> "handle_join",
                        member |-> Member_new(st.info, origin),
                        password |-> h.passwords[i]]]]]

RECURSIVE Part_each(_, _, _, _)
Part_each(st, origin, h, i) ==
    IF i > Len(h.channels) THEN st
    ELSE LET name == h.channels[i]
             st1 == IF name \in channels
                    THEN [st EXCEPT !.sends = Append(@,
                            [channel |-> name, create |-> FALSE,
                             event |-> [fn |-> "do_quit_leave", client |-> origin,
                                        command |-> "PART", reason |-> h.reason]])]
                    ELSE [st EXCEPT !.out = Append(@,
                            send_response(st.info, origin, "ERR_NOSUCHCHANNEL",
                                <<name, Text("No such channel")>>, Host))]
         IN Part_each(st1, origin, h, i + 1)

Part_invoke(st, origin, h) == Part_each(st, origin, h, 1)

\* Quit::invoke that tells one channel only
Quit_invoke_one_channel(st, origin, h) ==
    LET names == SeqOfSet(channels)
    IN [close_connection(st, origin) EXCEPT !.sends = @ \o
          [i \in 1 .. (IF names = <<>> THEN 0 ELSE 1) |->
              [channel |-> names[i], create |-> FALSE,
               event |-> [fn |-> "do_quit_leave", client |-> origin,
                          command |-> "QUIT", reason |-> h.reason]]]]

Quit_invoke(st, origin, h) ==
    LET names == SeqOfSet(channels)
    IN [close_connection(st, origin) EXCEPT !.sends = @ \o
          [i \in 1 .. Len(names) |->
              [channel |-> names[i], create |-> FALSE,
               event |-> [fn |-> "do_quit_leave", client |-> origin,
                          command |-> "QUIT", reason |-> h.reason]]]]

Mode_invoke(st, origin, h) ==
    IF h.receiver \in channels
    THEN [st EXCEPT !.sends = Append(@,
            [channel |-> h.receiver, create |-> FALSE,
             event |-> [fn |-> "handle_mode", proxy |-> origin,
                        params |-> h.params]])]
    ELSE [st EXCEPT !.out = Append(@,
            send_response(st.info, origin, "ERR_NOSUCHCHANNEL",
                <<h.receiver, Text("No such channel")>>, Host))]

Topic_invoke(st, origin, h) ==
    IF h.channel \in channels
    THEN [st EXCEPT !.sends = Append(@,
            [channel |-> h.channel, create |-> FALSE,
             event |-> [fn |-> "Topic_set", proxy |-> origin,
                        topic |-> h.topic, raw |-> h.raw]])]
    ELSE [st EXCEPT !.out = Append(@,
            send_response(st.info, origin, "ERR_NOSUCHCHANNEL",
                <<h.channel, Text("No such channel")>>, Host))]

RECURSIVE Names_each(_, _, _, _)
Names_each(st, origin, h, i) ==
    IF i > Len(h.receivers) THEN st
    ELSE LET r == h.receivers[i]
             st1 ==
               IF r.kind = "ChannelName"
               THEN IF r.name \in channels
                    THEN [st EXCEPT !.sends = Append(@,
                            [channel |-> r.name, create |-> FALSE,
                             event |-> [fn |-> "handle_names", proxy |-> origin]])]
                    ELSE [st EXCEPT !.out = Append(@,
                            send_response(st.info, origin, "ERR_NOSUCHCHANNEL",
                                <<r.name, Text("No such channel")>>, Host))]
               ELSE st
         IN Names_each(st1, origin, h, i + 1)

Names_invoke(st, origin, h) == Names_each(st, origin, h, 1)

Who_invoke(st, origin, h) ==
    IF h.mask \in channels
    THEN [st EXCEPT !.sends = Append(@,
            [channel |-> h.mask, create |-> FALSE,
             event |-> [fn |-> "handle_who", client |-> origin,
                        mask |-> h.mask, op_only |-> h.op_only]])]
    ELSE st

\* Ping::invoke and Pong::invoke
Ping_invoke(st, origin, h) == st

\* Server::find_peer
find_peer(st, nick) ==
    IF nick \in DOMAIN st.nicks THEN Some(st.nicks[nick]) ELSE None

RECURSIVE Msg_each(_, _, _, _, _)
Msg_each(st, origin, h, raw, i) ==
    IF i > Len(h.receiver) THEN st
    ELSE LET r == h.receiver[i]
             st1 ==
               IF r.kind = "ChannelName"
               THEN IF r.name \in channels
                    THEN [st EXCEPT !.sends = Append(@,
                            [channel |-> r.name, create |-> FALSE,
                             event |-> [fn |-> "handle_msg", client_id |-> origin,
                                        message |-> raw]])]
                    ELSE st
               ELSE IF r.kind = "NickName"
               THEN LET client == find_peer(st, r.name)
                    IN IF client # None
                       THEN [st EXCEPT !.out = Append(@, send_msg(client.val, raw))]
                       ELSE st
               ELSE st
         IN Msg_each(st1, origin, h, raw, i + 1)

Msg_invoke(st, origin, h) ==
    Msg_each(st, origin, h, set_prefix(h.raw, st.info[origin].nick), 1)

\* MessageHandler::invoke, for a registered user
invoke(st, origin, h) ==
    CASE h.cmd = "NICK" -> Nick_invoke(st, origin, h)
      [] h.cmd = "USER" -> User_invoke(st, origin, h)
      [] h.cmd = "JOIN" -> Join_invoke(st, origin, h)
      [] h.cmd = "PART" -> Part_invoke(st, origin, h)
      [] h.cmd = "QUIT" -> Quit_invoke(st, origin, h)
      [] h.cmd = "MODE" -> Mode_invoke(st, origin, h)
      [] h.cmd \in {"PRIVMSG", "NOTICE"} -> Msg_invoke(st, origin, h)
      [] h.cmd = "TOPIC" -> Topic_invoke(st, origin, h)
      [] h.cmd = "NAMES" -> Names_invoke(st, origin, h)
      [] h.cmd = "WHO" -> Who_invoke(st, origin, h)
      [] h.cmd \in {"PING", "PONG"} -> Ping_invoke(st, origin, h)

\* MessageHandler::invoke_con: only NICK and USER override the empty default
invoke_con(st, origin, h) ==
    CASE h.cmd = "NICK" -> Nick_invoke(st, origin, h)
      [] h.cmd = "USER" -> User_invoke(st, origin, h)
      [] OTHER -> st

\* the directory, the actors and their mailboxes after the sends
\* Proxy::send that drops the event of a failed send and tells nobody
Proxy_send_silent(d, name, event) ==
    IF name \in DOMAIN d.chan
    THEN [d EXCEPT !.mailbox[name] = Append(@, event)]
    ELSE d

\* Proxy::send: the send fails when the actor has exited and dropped its
\* receiver; ChannelLost(name) then goes to the server's queue (d.lost)
Proxy_send(d, name, event) ==
    IF name \in DOMAIN d.chan
    THEN [d EXCEPT !.mailbox[name] = Append(@, event)]
    ELSE [d EXCEPT !.lost = Append(@, [type |-> "ChannelLost", name |-> name])]

RECURSIVE deliver(_, _)
deliver(d, sends) ==
    IF sends = <<>> THEN d
    ELSE LET s == Head(sends)
             d1 == IF s.channel \in d.channels THEN d
                   ELSE [d EXCEPT
                         !.channels = d.channels \cup {s.channel},
                         !.chan = MapInsert(d.chan, s.channel, new_channel(s.channel)),
                         !.mailbox = MapInsert(d.mailbox, s.channel, <<>>)]
         IN deliver(Proxy_send(d1, s.channel, s.event), Tail(sends))

(***************************************************************************)
(* server.rs: the event loop                                               *)
(***************************************************************************)
ServerConnected ==
    /\ serverq # <<>>
    /\ Head(serverq).type = "Connected"
    /\ connections' = connections \cup {Head(serverq).id}
    /\ serverq' = Tail(serverq)
    /\ sent' = <<>>
    /\ UNCHANGED <<phase, info, users, nicks, channels, chan, mailbox>>
    /\ UNCHANGED <<arg, result>>

ServerMessageReceived ==
    /\ serverq # <<>>
    /\ Head(serverq).type = "MessageReceived"
    /\ LET id == Head(serverq).id
           h == Head(serverq).handler
           st == IF id \in users THEN invoke(ServerState, id, h)
                 ELSE IF id \in connections THEN invoke_con(ServerState, id, h)
                 ELSE ServerState
           d == deliver([channels |-> channels, chan |-> chan,
                         mailbox |-> mailbox, lost |-> <<>>], st.sends)
       IN /\ \A c \in d.channels : Len(d.mailbox[c]) <= MaxMailbox
          /\ serverq' = Tail(serverq) \o d.lost
          /\ info' = st.info
          /\ connections' = st.connections
          /\ users' = st.users
          /\ nicks' = st.nicks
          /\ phase' = st.phase
          /\ channels' = d.channels
          /\ chan' = d.chan
          /\ mailbox' = d.mailbox
          /\ sent' = st.out
    /\ UNCHANGED <<arg, result>>

\* ChannelLost(name): the proxy is removed from the directory
ServerChannelLost ==
    /\ serverq # <<>>
    /\ Head(serverq).type = "ChannelLost"
    /\ channels' = channels \ {Head(serverq).name}
    /\ serverq' = Tail(serverq)
    /\ sent' = <<>>
    /\ UNCHANGED <<phase, info, connections, users, nicks, chan, mailbox>>
    /\ UNCHANGED <<arg, result>>

(***************************************************************************)
(* channel/mod.rs: the actor loop of Channel::listen                       *)
(***************************************************************************)
dispatch(inf, channel, event) ==
    CASE event.fn = "handle_join" ->
            handle_join(inf, channel, event.member, event.password)
      [] event.fn = "do_quit_leave" ->
            do_quit_leave(inf, channel, event.client, event.command, event.reason)
      [] event.fn = "handle_mode" ->
            handle_mode(inf, channel, event.proxy, event.params)
      [] event.fn = "handle_msg" ->
            handle_msg(channel, event.client_id, event.message)
      [] event.fn = "Topic_set" ->
            Topic_set(inf, channel, event.proxy, event.topic)
      [] event.fn = "handle_names" ->
            [channel |-> channel, out |-> handle_names(inf, channel, event.proxy)]
      [] event.fn = "handle_who" ->
            [channel |-> channel,
             out |-> handle_who(inf, channel, event.client, event.mask,
                                event.op_only)]

\* the handler stopped on a failure: the task unwinds
task_failed(r) == "failed" \in DOMAIN r /\ r.failed

\* One turn of the loop.  A handler that fails ends the task: the Channel
\* and the receiver are dropped with the events not yet received, and the
\* proxy stays in the server's directory.
ChannelStep(c) ==
    /\ c \in DOMAIN chan
    /\ mailbox[c] # <<>>
    /\ LET r == dispatch(info, chan[c], Head(mailbox[c]))
       IN /\ sent' = r.out
          /\ IF task_failed(r)
             THEN /\ chan' = MapRemove(chan, c)
                  /\ mailbox' = [mailbox EXCEPT ![c] = <<>>]
             ELSE /\ chan' = [chan EXCEPT ![c] = r.channel]
                  /\ mailbox' = [mailbox EXCEPT ![c] = Tail(@)]
    /\ UNCHANGED <<phase, info, connections, users, nicks, channels, serverq>>
    /\ UNCHANGED <<arg, result>>

Next ==
    \/ \E p \in PeerIds : Accept(p)
    \/ \E p \in PeerIds : Reader(p)
    \/ ServerConnected
    \/ ServerMessageReceived
    \/ ServerChannelLost
    \/ \E c \in ChanNames : ChannelStep(c)

Spec == Init /\ [][Next]_vars

\* registration only: NICK, USER and QUIT
NextReg ==
    \/ \E p \in PeerIds : Accept(p)
    \/ \E p \in PeerIds : ReaderOf(p, RegMenu)
    \/ ServerConnected
    \/ ServerMessageReceived

SpecReg == Init /\ [][NextReg]_vars

\* registration and membership: NICK, USER, QUIT, JOIN and PART
NextChan ==
    \/ \E p \in PeerIds : Accept(p)
    \/ \E p \in PeerIds : ReaderOf(p, RegMenu \cup JoinPartMenu)
    \/ ServerConnected
    \/ ServerMessageReceived
    \/ \E c \in ChanNames : ChannelStep(c)

SpecChan == Init /\ [][NextChan]_vars

\* registered users sending JOIN, PART and MODE
NextMode ==
    \/ \E p \in PeerIds : ReaderOf(p, JoinPartMenu \cup ModeMenu)
    \/ ServerMessageReceived
    \/ \E c \in ChanNames : ChannelStep(c)

SpecMode == InitRegistered /\ [][NextMode]_vars

\* registered users sending JOIN, PART, PRIVMSG, NOTICE, MODE +m and MODE -n
NextMsg ==
    \/ \E p \in PeerIds : ReaderOf(p, JoinPartMenu \cup MsgModeMenu \cup MsgMenu)
    \/ ServerMessageReceived
    \/ \E c \in ChanNames : ChannelStep(c)

SpecMsg == InitRegistered /\ [][NextMsg]_vars

\* registered users sending JOIN, PART, TOPIC, MODE -t and MODE +t
NextTopic ==
    \/ \E p \in PeerIds : ReaderOf(p, JoinPartMenu \cup TopicModeMenu \cup TopicMenu)
    \/ ServerMessageReceived
    \/ \E c \in ChanNames : ChannelStep(c)

SpecTopic == InitRegistered /\ [][NextTopic]_vars

\* registered users sending JOIN, PART, NAMES, WHO, MODE +s, +p and -s
NextList ==
    \/ \E p \in PeerIds : ReaderOf(p, JoinPartMenu \cup ListModeMenu \cup ListMenu)
    \/ ServerMessageReceived
    \/ \E c \in ChanNames : ChannelStep(c)

SpecList == InitRegistered /\ [][NextList]_vars

\* registration with PING and PONG
NextPing ==
    \/ \E p \in PeerIds : Accept(p)
    \/ \E p \in PeerIds : ReaderOf(p, RegMenu \cup PingMenu)
    \/ ServerConnected
    \/ ServerMessageReceived

SpecPing == Init /\ [][NextPing]_vars

\* registered users joining two channels and quitting
NextQuit ==
    \/ \E p \in PeerIds : ReaderOf(p, QuitMenu)
    \/ ServerMessageReceived
    \/ \E c \in QuitChans : ChannelStep(c)

SpecQuit == InitRegistered /\ [][NextQuit]_vars

\* registered users joining both channels with one JOIN and quitting
NextLeave ==
    \/ \E p \in PeerIds : ReaderOf(p, LeaveMenu)
    \/ ServerMessageReceived
    \/ \E c \in QuitChans : ChannelStep(c)

\* every channel actor is a task of its own that takes the events of its
\* queue one after the other
SpecQuitFair ==
    /\ InitRegistered
    /\ [][NextLeave]_vars
    /\ \A c \in QuitChans : WF_vars(ChannelStep(c))

\* the lines of connection p, which asks for a nick of its own
ReplyMenu(p) ==
    {[cmd |-> "NICK", nick |-> nick_of(p)],
     [cmd |-> "USER", username |-> <<"u">>, realname |-> Text("Real Name")],
     Join_from_message(<<ChanA>>, <<>>),
     Mode_from_message(<<ChanA, <<"+", "m">>>>)}

\* connections that register, join a channel and ask for its modes, and
\* lines that the reader task answers itself
NextReply ==
    \/ \E p \in PeerIds : Accept(p)
    \/ \E p \in PeerIds : ReaderOf(p, ReplyMenu(p))
    \/ \E p \in PeerIds : ReaderError(p)
    \/ ServerConnected
    \/ ServerMessageReceived
    \/ ChannelStep(ChanA)

SpecReply == Init /\ [][NextReply]_vars

\* the events the server's queue holds at most while connections open
MaxConnQueue == 2

\* connections that open and send their first lines while the server has
\* not yet taken their Connected from its queue
NextConn ==
    \/ \E p \in PeerIds : AcceptUpTo(p, MaxConnQueue)
    \/ \E p \in PeerIds : ReaderUpTo(p, RegMenu, MaxConnQueue)
    \/ ServerConnected
    \/ ServerMessageReceived

SpecConn == Init /\ [][NextConn]_vars

\* MODE lines of a user, some with an empty token as "MODE #a :" has
FailModes ==
    {<< <<>> >>, << <<"+", "t">>, <<>> >>, << <<"+", "k">>, <<>> >>,
     << <<"+", "t">> >>, << <<"-", "t">> >>}

FailMenu ==
    {Join_from_message(<<ChanA>>, <<>>)}
    \cup {Mode_from_message(<<ChanA>> \o ms) : ms \in FailModes}

\* registered users on one channel whose actor can fail
NextFail ==
    \/ \E p \in PeerIds : ReaderOf(p, FailMenu)
    \/ ServerMessageReceived
    \/ ServerChannelLost
    \/ ChannelStep(ChanA)

SpecFail == InitRegistered /\ [][NextFail]_vars

\* the events the server's queue holds at most while proxies fail
MaxLostQueue == 3

LostMenu ==
    {Join_from_message(<<ChanA>>, <<>>), Mode_from_message(<<ChanA, <<>>>>)}

\* failed sends, JOINs that create the channel again and ChannelLost events
\* waiting in the server's queue
NextLost ==
    \/ \E p \in PeerIds : ReaderUpTo(p, LostMenu, MaxLostQueue)
    \/ ServerMessageReceived
    \/ ServerChannelLost
    \/ ChannelStep(ChanA)

SpecLost == InitRegistered /\ [][NextLost]_vars

NextLostFair ==
    \/ \E p \in PeerIds : ReaderOf(p, LostMenu)
    \/ ServerMessageReceived
    \/ ServerChannelLost
    \/ ChannelStep(ChanA)

\* the server's loop is one task that takes the events of its queue one
\* after the other, and so is every channel actor
SpecLostFair ==
    /\ InitRegistered
    /\ [][NextLostFair]_vars
    /\ WF_vars(ServerMessageReceived)
    /\ WF_vars(ServerChannelLost)
    /\ WF_vars(ChannelStep(ChanA))

(***************************************************************************)
(* channel/util.rs: modes_do called on its own, as test_mode_parser does   *)
(***************************************************************************)
MaxTokens == 4

\* the tokens after the channel name: mode groups and parameters
ParseTokens ==
    {<<"+", "b">>, <<"+", "e">>, <<"+", "b", "e">>, <<"-", "b">>, <<"b">>,
     <<"+", "g">>, <<"+", "o">>, MaskG, MaskB}

RECURSIVE SeqsUpTo(_, _)
SeqsUpTo(S, n) ==
    IF n = 0 THEN {<<>>}
    ELSE LET shorter == SeqsUpTo(S, n - 1)
         IN shorter \cup {Append(q, x) : q \in shorter, x \in S}

InitParse ==
    /\ phase = [p \in PeerIds |-> "new"]
    /\ info = [p \in PeerIds |-> UserInfo_new(hostname_of(p))]
    /\ connections = {}
    /\ users = {}
    /\ nicks = EmptyMap
    /\ channels = {}
    /\ chan = EmptyMap
    /\ mailbox = EmptyMap
    /\ serverq = <<>>
    /\ sent = <<>>
    /\ arg \in SeqsUpTo(ParseTokens, MaxTokens) \ {<<>>}
    /\ result = None

\* the call modes_do(slice, block) with a block that records its arguments
ParseModes ==
    /\ result = None
    /\ result' = Some(modes_do(arg))
    /\ UNCHANGED <<phase, info, connections, users, nicks, channels, chan,
                   mailbox, serverq, sent, arg>>

NextParse == ParseModes

SpecParse == InitParse /\ [][NextParse]_vars

(***************************************************************************)
(* msg/raw.rs: the buffer of a message and the offsets into it.  An ASlice *)
(* holds offsets that count from 0; end is the offset after the last byte. *)
(* uint arithmetic wraps around; the word is cut to 30 bits.               *)
(***************************************************************************)
UintSize == 2 ^ 30

uadd(a, b) == (a + b) % UintSize
usub(a, b) == (a - b) % UintSize

ASlice(start, end) == [start |-> start, end |-> end]

Err == [tag |-> "Err"]
Ok(v) == [tag |-> "Ok", val |-> v]

\* the task fails when the offsets do not lie in the vector
OutOfBounds == <<"fail!">>

\* ASlice::slice_vec
slice_vec(slice, vec) ==
    IF slice.start <= slice.end /\ slice.end <= Len(vec)
    THEN SubSeq(vec, slice.start + 1, slice.end)
    ELSE OutOfBounds

\* position: the offset of the first occurrence of needle in this
position(this, needle) ==
    LET hits == {i \in 0 .. Len(this) - Len(needle) :
                    SubSeq(this, i + 1, i + Len(needle)) = needle}
    IN IF hits = {} THEN None
       ELSE Some(CHOOSE i \in hits : \A j \in hits : i <= j)

position_elem(this, byte) == position(this, <<byte>>)

starts_with(this, needle) ==
    Len(this) >= Len(needle) /\ SubSeq(this, 1, Len(needle)) = needle

slice_from(this, start) == SubSeq(this, start + 1, Len(this))
slice_to(this, end) == SubSeq(this, 1, end)

\* split: the pieces between the separators; an empty slice has one piece
RECURSIVE split(_, _)
split(this, sep) ==
    LET at == position_elem(this, sep)
    IN IF at = None THEN <<this>>
       ELSE <<slice_to(this, at.val)>> \o split(slice_from(this, at.val + 1), sep)

\* the loop over the parameters in new_raw that marks the last parameter
\* with ':' only when it holds a space
RECURSIVE new_raw_params_colon_if_space(_, _, _, _, _)
new_raw_params_colon_if_space(params, i, start, raw_message, msg_params) ==
    IF i > Len(params) THEN [raw_message |-> raw_message, params |-> msg_params]
    ELSE LET bytes == params[i]
             last == i = Len(params) /\ position_elem(bytes, " ") # None
             offset == IF last THEN 1 ELSE 0
             end == start + 1 + Len(bytes) + offset
         IN new_raw_params_colon_if_space(params, i + 1, end,
                raw_message \o <<" ">> \o (IF last THEN <<":">> ELSE <<>>) \o bytes,
                Append(msg_params, ASlice(start + 1 + offset, end)))

\* the loop over the parameters in new_raw
RECURSIVE new_raw_params(_, _, _, _, _)
new_raw_params(params, i, start, raw_message, msg_params) ==
    IF i > Len(params) THEN [raw_message |-> raw_message, params |-> msg_params]
    ELSE LET bytes == params[i]
             last == i = Len(params)
             offset == IF last THEN 1 ELSE 0
             end == start + 1 + Len(bytes) + offset
         IN new_raw_params(params, i + 1, end,
                raw_message \o <<" ">> \o (IF last THEN <<":">> ELSE <<>>) \o bytes,
                Append(msg_params, ASlice(start + 1 + offset, end)))

\* RawMessage::new_raw; cmd_bytes is command.to_bytes()
RawMessage_new_raw(cmd_bytes, params, prefix) ==
    LET head == IF prefix = None THEN <<>>
                ELSE <<":">> \o prefix.val \o <<" ">>
        msg_prefix == IF prefix = None THEN None
                      ELSE Some(ASlice(1, Len(prefix.val) + 1))
        msg_command == ASlice(Len(head), Len(head) + Len(cmd_bytes))
        rest == new_raw_params(params, 1, msg_command.end, head \o cmd_bytes, <<>>)
    IN [raw_message |-> rest.raw_message,
        prefix |-> msg_prefix,
        command |-> msg_command,
        params |-> rest.params]

\* the parameters between the command and the trailing parameter
RECURSIVE middle_params(_, _, _, _)
middle_params(pieces, i, start, acc) ==
    IF i > Len(pieces) THEN acc
    ELSE LET slice == ASlice(start, start + Len(pieces[i]))
         IN middle_params(pieces, i + 1, slice.end + 1, Append(acc, slice))

\* RawMessage::parse
RawMessage_parse(bytes) ==
    LET has_prefix == starts_with(bytes, <<":">>)
        prefix_end == position_elem(bytes, " ")
    IN IF has_prefix /\ prefix_end = None THEN Err
       ELSE LET prefix == IF has_prefix THEN Some(ASlice(1, prefix_end.val))
                          ELSE None
                message == IF has_prefix THEN slice_from(bytes, prefix_end.val + 1)
                           ELSE bytes
                cmd_start == IF prefix = None THEN 0 ELSE prefix.val.end + 1
                trailing_pos == position(message, <<" ", ":">>)
                trailing == IF trailing_pos = None THEN None
                            ELSE Some(ASlice(cmd_start + trailing_pos.val + 2,
                                             Len(bytes)))
                middle == IF trailing_pos = None THEN message
                          ELSE slice_to(message, trailing_pos.val)
                pieces == split(middle, " ")
                command == ASlice(cmd_start, cmd_start + Len(pieces[1]))
                params == middle_params(pieces, 2, command.end + 1, <<>>)
            IN Ok([raw_message |-> bytes,
                   prefix |-> prefix,
                   command |-> command,
                   params |-> IF trailing = None THEN params
                              ELSE Append(params, trailing.val)])

\* RawMessage::prefix
RawMessage_prefix(self) ==
    IF self.prefix = None THEN None
    ELSE Some(slice_vec(self.prefix.val, self.raw_message))

\* RawMessage::command, before Command::from_bytes
RawMessage_command(self) == slice_vec(self.command, self.raw_message)

\* RawMessage::params
RawMessage_params(self) ==
    [i \in 1 .. Len(self.params) |-> slice_vec(self.params[i], self.raw_message)]

as_slice(self) == self.raw_message

shift(slice, offset) == ASlice(uadd(slice.start, offset), uadd(slice.end, offset))

\* RawMessage::set_prefix on the buffer and the offsets
RawMessage_set_prefix(self, prefix) ==
    IF self.prefix # None
    THEN LET old_prefix == self.prefix.val
             offset == uadd(usub(Len(prefix), old_prefix.end), 1)
         IN [raw_message |-> <<":">> \o prefix
                              \o slice_from(self.raw_message, old_prefix.end),
             prefix |-> Some(ASlice(old_prefix.start, uadd(old_prefix.end, offset))),
             command |-> shift(self.command, offset),
             params |-> [i \in 1 .. Len(self.params) |-> shift(self.params[i], offset)]]
    ELSE LET offset == Len(prefix) + 2
         IN [raw_message |-> <<":">> \o prefix \o <<" ">> \o self.raw_message,
             prefix |-> None,
             command |-> shift(self.command, offset),
             params |-> [i \in 1 .. Len(self.params) |-> shift(self.params[i], offset)]]

(***************************************************************************)
(* msg/raw.rs: new_raw, parse and set_prefix called on their own, as the   *)
(* tests of the module do                                                  *)
(***************************************************************************)
MaxBytes == 4
MaxParams == 2
MaxParamLen == 2

RawBytes == {"a", " ", ":"}

\* a prefix holds no space
LegalPrefixes ==
    {None} \cup {Some(q) : q \in SeqsUpTo({"a", ":"}, MaxParamLen)}

\* the bytes of a command and of a numeric reply
LegalCommands == {<<"J", "O", "I", "N">>, <<"0", "0", "1">>}

\* a middle parameter holds no space and does not start with ':'
MiddleParams ==
    {q \in SeqsUpTo({"a", ":"}, MaxParamLen) : q = <<>> \/ q[1] # ":"}

\* the last parameter is arbitrary
LastParams == SeqsUpTo(RawBytes, MaxParamLen)

LegalParams ==
    {<<>>} \cup {Append(ms, l) : ms \in SeqsUpTo(MiddleParams, MaxParams - 1),
                                l \in LastParams}

\* the prefixes handed to set_prefix: shorter and longer than the old ones
NewPrefixes == {<<"b">>, <<"b", "b", "b">>}

InitRaw ==
    /\ phase = [p \in PeerIds |-> "new"]
    /\ info = [p \in PeerIds |-> UserInfo_new(hostname_of(p))]
    /\ connections = {}
    /\ users = {}
    /\ nicks = EmptyMap
    /\ channels = {}
    /\ chan = EmptyMap
    /\ mailbox = EmptyMap
    /\ serverq = <<>>
    /\ sent = <<>>
    /\ arg \in {[kind |-> "new_raw", command |-> c, params |-> ps, prefix |-> pf] :
                   c \in LegalCommands, ps \in LegalParams, pf \in LegalPrefixes}
               \cup {[kind |-> "parse", line |-> l] :
                        l \in SeqsUpTo(RawBytes, MaxBytes)}
    /\ result = None

\* RawMessage::new_raw(command, params, prefix)
NewRaw ==
    /\ result = None
    /\ arg.kind = "new_raw"
    /\ result' = Some([op |-> "new_raw",
                       msg |-> Ok(RawMessage_new_raw(arg.command, arg.params,
                                                     arg.prefix))])
    /\ UNCHANGED <<phase, info, connections, users, nicks, channels, chan,
                   mailbox, serverq, sent, arg>>

\* RawMessage::parse(line)
ParseLine ==
    /\ result = None
    /\ arg.kind = "parse"
    /\ result' = Some([op |-> "parse", msg |-> RawMessage_parse(arg.line)])
    /\ UNCHANGED <<phase, info, connections, users, nicks, channels, chan,
                   mailbox, serverq, sent, arg>>

\* RawMessage::parse(m.as_slice()) for the message m that new_raw built
Reparse ==
    /\ result # None
    /\ result.val.op = "new_raw"
    /\ result' = Some([op |-> "reparse",
                       built |-> result.val.msg.val,
                       msg |-> RawMessage_parse(as_slice(result.val.msg.val))])
    /\ UNCHANGED <<phase, info, connections, users, nicks, channels, chan,
                   mailbox, serverq, sent, arg>>

\* m.set_prefix(p) for a message m that new_raw built or parse returned
SetPrefix(p) ==
    /\ result # None
    /\ result.val.op \in {"new_raw", "parse"}
    /\ result.val.msg.tag = "Ok"
    /\ result' = Some([op |-> "set_prefix",
                       before |-> result.val.msg.val,
                       new_prefix |-> p,
                       msg |-> Ok(RawMessage_set_prefix(result.val.msg.val, p))])
    /\ UNCHANGED <<phase, info, connections, users, nicks, channels, chan,
                   mailbox, serverq, sent, arg>>

\* a second m.set_prefix(p) on the message the first call changed
SetPrefixAgain(p) ==
    /\ result # None
    /\ result.val.op = "set_prefix"
    /\ result' = Some([op |-> "set_prefix_again",
                       before |-> result.val.before,
                       first_prefix |-> result.val.new_prefix,
                       new_prefix |-> p,
                       msg |-> Ok(RawMessage_set_prefix(result.val.msg.val, p))])
    /\ UNCHANGED <<phase, info, connections, users, nicks, channels, chan,
                   mailbox, serverq, sent, arg>>

NextRaw ==
    \/ NewRaw
    \/ ParseLine
    \/ Reparse
    \/ \E p \in NewPrefixes : SetPrefix(p)
    \/ \E p \in NewPrefixes : SetPrefixAgain(p)

SpecRaw == InitRaw /\ [][NextRaw]_vars

(***************************************************************************)
(* util.rs: valid_nick, valid_channel, verify_receiver and                 *)
(* HostMask::matches called on their own, as the tests of the module do    *)
(***************************************************************************)
MaxName == 2
MaxMask == 3
MaxHost == 4

NameChars == {"a", "Z", "1", "[", "-", "#", "&", " ", ","}

\* the string of n characters that starts with first and goes on with "a"
Padded(first, n) == [i \in 1 .. n |-> IF i = 1 THEN first ELSE "a"]

\* short names over NameChars, and names of 9 and of 10 characters
NameInputs ==
    SeqsUpTo(NameChars, MaxName)
    \cup {Padded(first, n) : first \in {"a", "1", "[", "#"}, n \in {9, 10}}

MaskInputs == SeqsUpTo({"*", "a", "."}, MaxMask)
HostInputs == SeqsUpTo({"a", "."}, MaxHost)

InitUtil ==
    /\ phase = [p \in PeerIds |-> "new"]
    /\ info = [p \in PeerIds |-> UserInfo_new(hostname_of(p))]
    /\ connections = {}
    /\ users = {}
    /\ nicks = EmptyMap
    /\ channels = {}
    /\ chan = EmptyMap
    /\ mailbox = EmptyMap
    /\ serverq = <<>>
    /\ sent = <<>>
    /\ arg \in {[kind |-> "name", name |-> n] : n \in NameInputs}
               \cup {[kind |-> "mask", mask |-> m, host |-> h] :
                        m \in MaskInputs, h \in HostInputs}
    /\ result = None

\* valid_nick(name)
ValidNick ==
    /\ result = None
    /\ arg.kind = "name"
    /\ result' = Some([op |-> "valid_nick", value |-> valid_nick(arg.name)])
    /\ UNCHANGED <<phase, info, connections, users, nicks, channels, chan,
                   mailbox, serverq, sent, arg>>

\* valid_channel(name)
ValidChannel ==
    /\ result = None
    /\ arg.kind = "name"
    /\ result' = Some([op |-> "valid_channel", value |-> valid_channel(arg.name)])
    /\ UNCHANGED <<phase, info, connections, users, nicks, channels, chan,
                   mailbox, serverq, sent, arg>>

\* verify_receiver(name)
VerifyReceiver ==
    /\ result = None
    /\ arg.kind = "name"
    /\ result' = Some([op |-> "verify_receiver", value |-> verify_receiver(arg.name)])
    /\ UNCHANGED <<phase, info, connections, users, nicks, channels, chan,
                   mailbox, serverq, sent, arg>>

\* HostMask::new(mask).matches(host)
Matches ==
    /\ result = None
    /\ arg.kind = "mask"
    /\ result' = Some([op |-> "matches", value |-> matches(arg.mask, arg.host)])
    /\ UNCHANGED <<phase, info, connections, users, nicks, channels, chan,
                   mailbox, serverq, sent, arg>>

NextUtil ==
    \/ ValidNick
    \/ ValidChannel
    \/ VerifyReceiver
    \/ Matches

SpecUtil == InitUtil /\ [][NextUtil]_vars

(***************************************************************************)
(* Properties                                                              *)
(***************************************************************************)
\* the step is the server handling the MessageReceived at the head of its queue
ServerHandles ==
    /\ serverq # <<>>
    /\ Head(serverq).type = "MessageReceived"
    /\ serverq' = Tail(serverq)

\* the step is the actor of c running the event fn at the head of its mailbox
ActorRuns(c, fn) ==
    /\ c \in DOMAIN chan
    /\ mailbox[c] # <<>>
    /\ Head(mailbox[c]).fn = fn
    /\ c \in DOMAIN mailbox'
    /\ mailbox'[c] = Tail(mailbox[c])

\* the last step put exactly one message on a write queue: code, to peer id
OnlyReply(out, id, code) ==
    /\ Len(out) = 1
    /\ out[1].to = id
    /\ out[1].msg.command = code

HasMessage(out, command) ==
    \E i \in 1 .. Len(out) : out[i].msg.command = command

\* C1: in every channel, nicknames and members are inverse indexes of each
\* other: every id in nicknames maps to a nick stored in members under
\* that id, and every entry of members is reached from its id.
C1_NicknamesIndexMembers ==
    \A c \in DOMAIN chan :
        LET nn == chan[c].nicknames
            mm == chan[c].members
        IN /\ \A p \in DOMAIN nn : nn[p] \in DOMAIN mm /\ mm[nn[p]].id = p
           /\ \A n \in DOMAIN mm : mm[n].id \in DOMAIN nn /\ nn[mm[n].id] = n

\* a member whose nick was changed by NICK after it joined
C1_Witness ==
    \E c \in DOMAIN chan : \E p \in DOMAIN chan[c].nicknames :
        /\ chan[c].nicknames[p] # info[p].nick
        /\ p \in users

\* C2: once every channel mailbox is empty, every channel of the server's
\* directory has at least one member.
C2_NoEmptyChannelLingers ==
    (\A c \in channels : mailbox[c] = <<>>)
        => \A c \in channels : member_count(chan[c]) >= 1

\* C3: every registered user is found in nicks under its current nick.
C3_NicksIndexUsers ==
    \A id \in users :
        /\ info[id].nick \in DOMAIN nicks
        /\ nicks[info[id].nick] = id

\* two registered users, one of which has changed its nick since
C3_Witness ==
    \E id \in users : \E n \in DOMAIN nicks :
        /\ nicks[n] = id
        /\ n # info[id].nick

\* the nick a NICK or USER handled for id leaves the connection with, when
\* after it the connection has sent both a valid nick and USER
BothReceived(id, h) ==
    /\ h.cmd \in {"NICK", "USER"}
    /\ id \in connections
    /\ id \notin users
    /\ IF h.cmd = "NICK"
       THEN valid_nick(h.nick) /\ info[id].status = "Registered"
       ELSE valid_nick(info[id].nick)

NickOfRequest(id, h) == IF h.cmd = "NICK" THEN h.nick ELSE info[id].nick

Promoted(id) ==
    /\ id \notin users
    /\ id \in users'

\* C4 as stated: a connection is promoted only with a valid nick and a
\* completed USER, and as soon as both have been received; if the nick is
\* then already in nicks, ERR_ALREADYREGISTRED is sent and it is not promoted.
C4_Original ==
    [][\A id \in PeerIds :
        /\ Promoted(id) =>
              /\ valid_nick(info'[id].nick)
              /\ info'[id].status = "Registered"
              /\ OnlyReply(sent', id, "RPL_WELCOME")
        /\ (ServerHandles /\ Head(serverq).id = id
              /\ BothReceived(id, Head(serverq).handler)) =>
              IF NickOfRequest(id, Head(serverq).handler) \in DOMAIN nicks
              THEN id \notin users' /\ OnlyReply(sent', id, "ERR_ALREADYREGISTRED")
              ELSE /\ id \in users'
                   /\ nicks'[info'[id].nick] = id
                   /\ OnlyReply(sent', id, "RPL_WELCOME")]_vars

\* C4 (amended): as C4_Original, but a NICK that names a nick already in
\* nicks is refused with ERR_NICKNAMEINUSE (the nick is not stored);
\* ERR_ALREADYREGISTRED is the reply when the USER arrives last.
C4_Promotion ==
    [][\A id \in PeerIds :
        /\ Promoted(id) =>
              /\ valid_nick(info'[id].nick)
              /\ info'[id].status = "Registered"
              /\ OnlyReply(sent', id, "RPL_WELCOME")
        /\ (ServerHandles /\ Head(serverq).id = id
              /\ BothReceived(id, Head(serverq).handler)) =>
              IF NickOfRequest(id, Head(serverq).handler) \in DOMAIN nicks
              THEN /\ id \notin users'
                   /\ IF Head(serverq).handler.cmd = "NICK"
                      THEN /\ OnlyReply(sent', id, "ERR_NICKNAMEINUSE")
                           /\ info'[id].nick = info[id].nick
                      ELSE OnlyReply(sent', id, "ERR_ALREADYREGISTRED")
              ELSE /\ id \in users'
                   /\ nicks'[info'[id].nick] = id
                   /\ OnlyReply(sent', id, "RPL_WELCOME")]_vars

\* a connection that sent USER last was refused for a nick somebody holds,
\* while another connection has been promoted
C4_Witness ==
    \E id \in connections \ users :
        /\ OnlyReply(sent, id, "ERR_ALREADYREGISTRED")
        /\ info[id].status = "Registered"
        /\ info[id].nick \in DOMAIN nicks
        /\ users # {}

\* id is a member of channel ch and holds OperatorPrivilege
IsOperator(ch, id) ==
    /\ id \in DOMAIN ch.nicknames
    /\ ch.nicknames[id] \in DOMAIN ch.members
    /\ OperatorPrivilege \in ch.members[ch.nicknames[id]].flags

\* the JOIN at the head of the mailbox of c added its member
Joined(c) ==
    /\ Head(mailbox[c]).member.id \notin DOMAIN chan[c].nicknames
    /\ Head(mailbox[c]).member.id \in DOMAIN chan'[c].nicknames

\* C5: a JOIN that succeeds on a channel without members stores the member
\* with ChannelCreator and OperatorPrivilege; a JOIN that succeeds on a
\* channel with a member stores it with neither.
C5_FirstJoinerFlags ==
    [][\A c \in ChanNames :
        (ActorRuns(c, "handle_join") /\ Joined(c)) =>
            LET id == Head(mailbox[c]).member.id
                stored == chan'[c].members[chan'[c].nicknames[id]].flags
            IN IF member_count(chan[c]) = 0
               THEN {ChannelCreator, OperatorPrivilege} \subseteq stored
               ELSE stored \cap {ChannelCreator, OperatorPrivilege} = {}]_vars

\* a second member has just joined a channel whose creator is present
C5_Witness ==
    \E c \in DOMAIN chan : \E n1, n2 \in DOMAIN chan[c].members :
        /\ chan[c].members[n1].flags = {ChannelCreator, OperatorPrivilege}
        /\ chan[c].members[n2].flags = {}
        /\ HasMessage(sent, "JOIN")

\* C6 as stated: every JOIN by a peer whose mask matches a ban mask and no
\* exception mask gets ERR_BANNEDFROMCHAN and changes no membership; a peer
\* matching an exception mask is not blocked by the ban.
C6_Original ==
    [][\A c \in ChanNames :
        ActorRuns(c, "handle_join") =>
            LET m == Head(mailbox[c]).member
            IN /\ (mask_matches_any(m, chan[c].ban_masks)
                     /\ ~mask_matches_any(m, chan[c].except_masks)) =>
                      /\ OnlyReply(sent', m.id, "ERR_BANNEDFROMCHAN")
                      /\ chan'[c].members = chan[c].members
                      /\ chan'[c].nicknames = chan[c].nicknames
               /\ mask_matches_any(m, chan[c].except_masks) =>
                      ~HasMessage(sent', "ERR_BANNEDFROMCHAN")]_vars

\* C6 (amended): the same for a JOIN that passes the key check and whose
\* peer is not already a member of the channel.
C6_Banned ==
    [][\A c \in ChanNames :
        ActorRuns(c, "handle_join") =>
            LET m == Head(mailbox[c]).member
                key_ok == chan[c].password = None
                          \/ Head(mailbox[c]).password = chan[c].password
            IN /\ (mask_matches_any(m, chan[c].ban_masks)
                     /\ ~mask_matches_any(m, chan[c].except_masks)
                     /\ key_ok
                     /\ m.id \notin DOMAIN chan[c].nicknames) =>
                      /\ OnlyReply(sent', m.id, "ERR_BANNEDFROMCHAN")
                      /\ chan'[c].members = chan[c].members
                      /\ chan'[c].nicknames = chan[c].nicknames
               /\ mask_matches_any(m, chan[c].except_masks) =>
                      ~HasMessage(sent', "ERR_BANNEDFROMCHAN")]_vars

\* a banned peer has just been refused
C6_Witness ==
    \E c \in DOMAIN chan : \E id \in PeerIds :
        /\ OnlyReply(sent, id, "ERR_BANNEDFROMCHAN")
        /\ id \notin DOMAIN chan[c].nicknames
        /\ \E mask \in chan[c].ban_masks : matches(mask, info[id].hostmask)

\* C7: with a limit n set, a JOIN that passes the key, ban and invite checks
\* is rejected with ERR_CHANNELISFULL exactly when members + 1 > n.
C7_LimitEnforced ==
    [][\A c \in ChanNames :
        ActorRuns(c, "handle_join") =>
            LET m == Head(mailbox[c]).member
                ch == chan[c]
                passes ==
                    /\ ch.password = None \/ Head(mailbox[c]).password = ch.password
                    /\ m.id \notin DOMAIN ch.nicknames
                    /\ ~(mask_matches_any(m, ch.ban_masks)
                         /\ ~mask_matches_any(m, ch.except_masks))
                    /\ ~(InviteOnly \in ch.flags
                         /\ ~mask_matches_any(m, ch.invite_masks))
            IN (passes /\ ch.limit # None) =>
                  (OnlyReply(sent', m.id, "ERR_CHANNELISFULL")
                     <=> member_count(ch) + 1 > ch.limit.val)]_vars

\* C8: while a password is set, a JOIN with no key or another key gets
\* ERR_BADCHANNELKEY and changes nothing in the channel; an operator's
\* MODE +k sets the password, MODE -k clears it, and a JOIN to a channel
\* without password never gets ERR_BADCHANNELKEY.
C8_ChannelKey ==
    [][\A c \in ChanNames :
        /\ ActorRuns(c, "handle_join") =>
              IF chan[c].password # None
                 /\ Head(mailbox[c]).password # chan[c].password
              THEN /\ OnlyReply(sent', Head(mailbox[c]).member.id, "ERR_BADCHANNELKEY")
                   /\ chan'[c] = chan[c]
              ELSE ~HasMessage(sent', "ERR_BADCHANNELKEY")
        /\ (ActorRuns(c, "handle_mode")
              /\ IsOperator(chan[c], Head(mailbox[c]).proxy)) =>
              LET modestring == Tail(Head(mailbox[c]).params)
              IN /\ modestring = << <<"-", "k">> >> => chan'[c].password = None
                 /\ (Len(modestring) = 2 /\ modestring[1] = <<"+", "k">>) =>
                        chan'[c].password = Some(modestring[2])]_vars

\* a JOIN has just been refused for its key
C8_Witness ==
    \E c \in DOMAIN chan : \E id \in PeerIds :
        /\ OnlyReply(sent, id, "ERR_BADCHANNELKEY")
        /\ chan[c].password # None

\* C9: after an operator's MODE +o nick (+v nick) naming a member, the
\* member holds the privilege; after -o nick (-v nick) it does not.
C9_PromoteDemote ==
    [][\A c \in ChanNames :
        (ActorRuns(c, "handle_mode")
            /\ IsOperator(chan[c], Head(mailbox[c]).proxy)) =>
            LET modestring == Tail(Head(mailbox[c]).params)
            IN (Len(modestring) = 2
                  /\ Len(modestring[1]) = 2
                  /\ modestring[1][1] \in {"+", "-"}
                  /\ modestring[1][2] \in {OperatorPrivilege, VoicePrivilege}
                  /\ modestring[2] \in DOMAIN chan[c].members) =>
                  (modestring[1][1] = "+"
                     <=> modestring[1][2] \in chan'[c].members[modestring[2]].flags)]_vars

\* C10: a MODE with a mode string from a peer that is not an operator of
\* the channel gets ERR_CHANOPRIVSNEEDED and nothing else: the channel is
\* unchanged and no MODE message is sent.
C10_NotOperator ==
    [][\A c \in ChanNames :
        (ActorRuns(c, "handle_mode")
            /\ Len(Head(mailbox[c]).params) > 1
            /\ ~IsOperator(chan[c], Head(mailbox[c]).proxy)) =>
            /\ OnlyReply(sent', Head(mailbox[c]).proxy, "ERR_CHANOPRIVSNEEDED")
            /\ chan'[c] = chan[c]]_vars

\* a member without OperatorPrivilege has just been refused
C10_Witness ==
    \E c \in DOMAIN chan : \E id \in DOMAIN chan[c].nicknames :
        /\ OnlyReply(sent, id, "ERR_CHANOPRIVSNEEDED")
        /\ ~IsOperator(chan[c], id)

\* the mode strings ("+b", "-k", ...) of the MODE messages in out sent to id
ModeFlagsSentTo(out, id) ==
    LET IsMode(m) == m.to = id /\ m.msg.command = "MODE"
        ms == SelectSeq(out, IsMode)
    IN [i \in 1 .. Len(ms) |-> ms[i].msg.params[2]]

\* the mode strings of the triples that change the channel, in the order
\* the block is applied to them
RECURSIVE ModeChanges(_, _, _, _)
ModeChanges(inf, channel, proxy, triples) ==
    IF triples = <<>> THEN <<>>
    ELSE LET t == Head(triples)
             r == mode_block(inf, channel, proxy, inf[proxy].nick,
                             t.action, t.mode, t.param)
         IN (IF r.channel # channel
             THEN << action_sign(t.action) \o <<t.mode>> >> ELSE <<>>)
            \o ModeChanges(inf, r.channel, proxy, Tail(triples))

RECURSIVE IsSubseq(_, _)
IsSubseq(a, b) ==
    IF a = <<>> THEN TRUE
    ELSE IF b = <<>> THEN FALSE
    ELSE IF Head(a) = Head(b) THEN IsSubseq(Tail(a), Tail(b))
    ELSE IsSubseq(a, Tail(b))

\* the actor of c runs a MODE with a mode string sent by an operator
OperatorMode(c) ==
    /\ ActorRuns(c, "handle_mode")
    /\ Len(Head(mailbox[c]).params) > 1
    /\ IsOperator(chan[c], Head(mailbox[c]).proxy)

\* C11: when an operator's MODE is applied, every member receives a MODE
\* message for each change made to the channel, in the order of the changes
\* (messages for requests that changed nothing are not counted here).
C11_ChangesBroadcast ==
    [][\A c \in ChanNames :
        OperatorMode(c) =>
            LET ev == Head(mailbox[c])
                changes == ModeChanges(info, chan[c], ev.proxy,
                                       modes_do(Tail(ev.params)).triples)
            IN \A id \in DOMAIN chan'[c].nicknames :
                  IsSubseq(changes, ModeFlagsSentTo(sent', id))]_vars

\* C12: an operator's MODE none of whose requests changes the channel
\* sends no MODE message.
C12_NoOpSilent ==
    [][\A c \in ChanNames :
        OperatorMode(c) =>
            LET ev == Head(mailbox[c])
                changes == ModeChanges(info, chan[c], ev.proxy,
                                       modes_do(Tail(ev.params)).triples)
            IN changes = <<>> => ~HasMessage(sent', "MODE")]_vars

\* the modes that take a parameter when added or removed: the nick for o
\* and v, the key, the limit and the three kinds of mask
ParameterModes ==
    {OperatorPrivilege, VoicePrivilege, ChannelKey, UserLimit, BanMask,
     ExceptionMask, InvitationMask}

\* the action a group token stands for, and its mode letters
GroupAction(token) ==
    IF Head(token) = "+" THEN Add ELSE IF Head(token) = "-" THEN Remove ELSE Show

GroupLetters(token) ==
    IF Head(token) \in {"+", "-"} THEN Tail(token) ELSE token

\* slice is one Add or Remove group of parameter-taking modes followed by
\* one parameter for each of them
IsGrouped(slice) ==
    /\ slice # <<>>
    /\ GroupAction(slice[1]) # Show
    /\ GroupLetters(slice[1]) # <<>>
    /\ \A i \in 1 .. Len(GroupLetters(slice[1])) :
          GroupLetters(slice[1])[i] \in ParameterModes
    /\ Len(slice) = 1 + Len(GroupLetters(slice[1]))

\* the same request with one group per mode: "+be m1 m2" as "+b m1 +e m2"
SplitForm(slice) ==
    [i \in 1 .. 2 * (Len(slice) - 1) |->
        IF i % 2 = 1
        THEN <<Head(slice[1]), GroupLetters(slice[1])[(i + 1) \div 2]>>
        ELSE slice[1 + i \div 2]]

\* each mode of the group with its own parameter
PairedTriples(slice) ==
    [i \in 1 .. Len(slice) - 1 |->
        [action |-> GroupAction(slice[1]),
         mode |-> GroupLetters(slice[1])[i],
         param |-> Some(slice[i + 1])]]

\* C13: for a group of parameter-taking modes followed by their parameters,
\* the parser yields each mode paired with its own parameter and nothing
\* else, and it yields the same triples for the split form of the request.
C13_GroupedEqualsSplit ==
    (result # None /\ IsGrouped(arg)) =>
        /\ result.val.triples = PairedTriples(arg)
        /\ modes_do(SplitForm(arg)).triples = PairedTriples(arg)

\* the letters of a token that are channel modes
RECURSIVE KnownModes(_)
KnownModes(letters) ==
    IF letters = <<>> THEN <<>>
    ELSE (IF Head(letters) \in ChannelMode THEN <<Head(letters)>> ELSE <<>>)
         \o KnownModes(Tail(letters))

\* C14: the triples of the first group carry Add for '+', Remove for '-'
\* and Show otherwise, one triple for each letter that is a channel mode
\* and none for the other letters; no triple with action Show carries a
\* parameter; "b" alone yields (Show, BanMask, None) and "+g" yields nothing.
C14_GroupActions ==
    result # None =>
        LET triples == result.val.triples
            modes == KnownModes(GroupLetters(arg[1]))
        IN /\ Len(triples) >= Len(modes)
           /\ \A i \in 1 .. Len(modes) :
                 /\ triples[i].action = GroupAction(arg[1])
                 /\ triples[i].mode = modes[i]
           /\ Len(arg) = 1 => Len(triples) = Len(modes)
           /\ \A i \in 1 .. Len(triples) :
                 /\ triples[i].mode \in ChannelMode
                 /\ triples[i].action = Show => triples[i].param = None
           /\ arg = << <<"b">> >> =>
                 triples = <<[action |-> Show, mode |-> BanMask, param |-> None]>>
           /\ arg = << <<"+", "g">> >> => triples = <<>>

\* "b m" has been parsed: the Show group left the token after it alone
C14_Witness ==
    /\ result # None
    /\ arg = << <<"b">>, MaskG >>
    /\ result.val.triples = <<[action |-> Show, mode |-> BanMask, param |-> None]>>

\* the number of messages in out addressed to id
CountTo(out, id) ==
    Cardinality({i \in 1 .. Len(out) : out[i].to = id})

\* the channel lets its event pass: the sender is a member or the channel
\* takes messages from outside, and on a moderated channel the sender has
\* a voice
OpenTo(ch, id) ==
    /\ MemberOnly \in ch.flags => id \in DOMAIN ch.nicknames
    /\ Moderated \in ch.flags =>
          /\ id \in DOMAIN ch.nicknames
          /\ ch.members[ch.nicknames[id]].flags
                \cap {VoicePrivilege, OperatorPrivilege} # {}

\* C15: a PRIVMSG or NOTICE that the channel delivers (and every one the
\* channel is open to) is put exactly once on the write queue of every
\* member other than the sender, unchanged, and on no other queue.
C15_DeliveredOnceToOthers ==
    [][\A c \in ChanNames :
        ActorRuns(c, "handle_msg") =>
            LET ev == Head(mailbox[c])
            IN (sent' # <<>> \/ OpenTo(chan[c], ev.client_id)) =>
                  /\ \A i \in 1 .. Len(sent') : sent'[i].msg = ev.message
                  /\ \A id \in PeerIds :
                        CountTo(sent', id) =
                            IF id \in DOMAIN chan[c].nicknames \ {ev.client_id}
                            THEN 1 ELSE 0]_vars

\* a member's PRIVMSG has just gone to the other member of the channel
C15_Witness ==
    \E c \in DOMAIN chan :
        /\ member_count(chan[c]) = 2
        /\ Len(sent) = 1
        /\ sent[1].msg.command = "PRIVMSG"
        /\ sent[1].msg.params[1] = c
        /\ sent[1].to \in DOMAIN chan[c].nicknames
        /\ sent[1].msg.prefix # Some(chan[c].nicknames[sent[1].to])

\* C16: on a channel with MemberOnly a PRIVMSG from a peer that is not a
\* member reaches no member and is answered with ERR_CANNOTSENDTOCHAN; a
\* NOTICE is dropped without a reply.
C16_OutsideSender ==
    [][\A c \in ChanNames :
        (ActorRuns(c, "handle_msg")
            /\ MemberOnly \in chan[c].flags
            /\ Head(mailbox[c]).client_id \notin DOMAIN chan[c].nicknames) =>
            IF Head(mailbox[c]).message.command = "PRIVMSG"
            THEN OnlyReply(sent', Head(mailbox[c]).client_id, "ERR_CANNOTSENDTOCHAN")
            ELSE sent' = <<>>]_vars

\* C17: on a channel with Moderated a PRIVMSG from a member holding neither
\* VoicePrivilege nor OperatorPrivilege reaches no member.
C17_ModeratedSilence ==
    [][\A c \in ChanNames :
        (ActorRuns(c, "handle_msg")
            /\ Moderated \in chan[c].flags
            /\ Head(mailbox[c]).message.command = "PRIVMSG"
            /\ Head(mailbox[c]).client_id \in DOMAIN chan[c].nicknames
            /\ chan[c].members[chan[c].nicknames[Head(mailbox[c]).client_id]].flags
                  \cap {VoicePrivilege, OperatorPrivilege} = {}) =>
            sent' = <<>>]_vars

\* the number of messages with the command in out addressed to id
CountCommandTo(out, id, command) ==
    Cardinality({i \in 1 .. Len(out) :
                    out[i].to = id /\ out[i].msg.command = command})

\* C18: the server hands a user's QUIT to every channel exactly once, and
\* the actor of a channel sends one QUIT message to each other user that is
\* a member of the channel when the quitter is a member too, and none to
\* the other users otherwise.
C18_QuitOncePerSharedChannel ==
    [][/\ (ServerHandles
             /\ Head(serverq).handler.cmd = "QUIT"
             /\ Head(serverq).id \in users) =>
             \A c \in channels :
                /\ c \in DOMAIN mailbox'
                /\ mailbox'[c] = Append(mailbox[c],
                      [fn |-> "do_quit_leave", client |-> Head(serverq).id,
                       command |-> "QUIT",
                       reason |-> Head(serverq).handler.reason])
       /\ \A c \in QuitChans :
             (ActorRuns(c, "do_quit_leave")
                /\ Head(mailbox[c]).command = "QUIT") =>
                LET q == Head(mailbox[c]).client
                IN \A u \in PeerIds \ {q} :
                      CountCommandTo(sent', u, "QUIT") =
                         IF {u, q} \subseteq DOMAIN chan[c].nicknames
                         THEN 1 ELSE 0]_vars

\* a user that is in both channels has just received the QUIT of another
\* user from one of them
C18_Witness ==
    \E q \in PeerIds : \E u \in PeerIds \ {q} :
        /\ phase[q] = "closed"
        /\ CountCommandTo(sent, u, "QUIT") = 1
        /\ QuitChans \subseteq DOMAIN chan
        /\ \A c \in QuitChans : u \in DOMAIN chan[c].nicknames
        /\ \E c \in QuitChans : q \notin DOMAIN chan[c].nicknames

\* p is in no channel, neither in nicknames nor in members
Absent(p) ==
    \A c \in DOMAIN chan :
        /\ p \notin DOMAIN chan[c].nicknames
        /\ \A n \in DOMAIN chan[c].members : chan[c].members[n].id # p

\* C19: once the server has dispatched the QUIT of a user, the user is
\* eventually absent from members and nicknames of every channel and stays
\* absent.
C19_QuitterLeavesEverywhere ==
    \A p \in PeerIds : (phase[p] = "closed") ~> [](Absent(p))

\* a user that was in both channels has quit and is gone from both
C19_Witness ==
    \E p \in PeerIds :
        /\ phase[p] = "closed"
        /\ Absent(p)
        /\ QuitChans \subseteq DOMAIN chan
        /\ \A c \in QuitChans : mailbox[c] = <<>>
        /\ CountCommandTo(sent, p, "QUIT") = 1

C21_ShowOnly ==
    [][\A c \in ChanNames :
        (ActorRuns(c, "Topic_set") /\ Len(Head(mailbox[c]).raw.params) = 1) =>
            /\ chan'[c].topic = chan[c].topic
            /\ ~HasMessage(sent', "TOPIC")]_vars

SentTo(out, id) == SelectSeq(out, LAMBDA m : m.to = id)

\* C23: after every successful JOIN the joiner's write queue holds, in this
\* order, the JOIN message for the channel, the topic reply, the
\* RPL_NAMREPLY lines and RPL_ENDOFNAMES; one of the RPL_NAMREPLY lines
\* carries the joiner's own decorated nick, and every member that was in the
\* channel before gets the JOIN message.
C23_JoinReplies ==
    [][\A c \in ChanNames :
        (ActorRuns(c, "handle_join") /\ Joined(c)) =>
            LET id == Head(mailbox[c]).member.id
                mine == SentTo(sent', id)
                n == Len(mine)
                me == chan'[c].members[chan'[c].nicknames[id]]
            IN /\ n >= 4
               /\ mine[1].msg.command = "JOIN"
               /\ mine[1].msg.params = <<c>>
               /\ mine[2].msg.command \in {"RPL_NOTOPIC", "RPL_TOPIC"}
               /\ \A i \in 3 .. n - 1 : mine[i].msg.command = "RPL_NAMREPLY"
               /\ mine[n].msg.command = "RPL_ENDOFNAMES"
               /\ \E i \in 3 .. n - 1 :
                     mine[i].msg.params[Len(mine[i].msg.params)] = me.decorated_nick
               /\ \A u \in DOMAIN chan[c].nicknames :
                     \E i \in 1 .. Len(sent') :
                        /\ sent'[i].to = u
                        /\ sent'[i].msg.command = "JOIN"
                        /\ sent'[i].msg.params = <<c>>]_vars

\* a second member has just joined: the joiner got JOIN, the topic reply,
\* two RPL_NAMREPLY lines and RPL_ENDOFNAMES, the first member got JOIN
C23_Witness ==
    \E c \in DOMAIN chan : \E id \in DOMAIN chan[c].nicknames :
        /\ member_count(chan[c]) = 2
        /\ Len(SentTo(sent, id)) = 5
        /\ SentTo(sent, id)[1].msg.command = "JOIN"
        /\ SentTo(sent, id)[5].msg.command = "RPL_ENDOFNAMES"
        /\ \E u \in DOMAIN chan[c].nicknames \ {id} :
              /\ Len(SentTo(sent, u)) = 1
              /\ SentTo(sent, u)[1].msg.command = "JOIN"

\* C24: the topic reply a successful JOIN sends to the joiner is RPL_TOPIC
\* when the channel's topic is set to a non-empty value and RPL_NOTOPIC
\* when no topic is set.
C24_TopicReply ==
    [][\A c \in ChanNames :
        (ActorRuns(c, "handle_join") /\ Joined(c)) =>
            LET mine == SentTo(sent', Head(mailbox[c]).member.id)
            IN IF chan[c].topic # <<>>
               THEN HasMessage(mine, "RPL_TOPIC") /\ ~HasMessage(mine, "RPL_NOTOPIC")
               ELSE HasMessage(mine, "RPL_NOTOPIC") /\ ~HasMessage(mine, "RPL_TOPIC")]_vars

\* C25: a NAMES request for a channel with the Secret or the Private flag,
\* from a peer that is not a member of it, reveals no member nick: its reply
\* is the one an empty channel gives, with no RPL_NAMREPLY line.
C25_NamesHidden ==
    [][\A c \in ChanNames :
        (/\ ActorRuns(c, "handle_names")
         /\ chan[c].flags \cap {Secret, Private} # {}
         /\ Head(mailbox[c]).proxy \notin DOMAIN chan[c].nicknames) =>
            /\ ~HasMessage(sent', "RPL_NAMREPLY")
            /\ \A i \in 1 .. Len(sent') :
                  \A n \in DOMAIN chan[c].members :
                     sent'[i].msg.params[Len(sent'[i].msg.params)]
                        # chan[c].members[n].decorated_nick]_vars

\* the replies to a WHO request of id end with exactly one RPL_ENDOFWHO
EndsWho(out, id) ==
    LET mine == SentTo(out, id)
    IN /\ mine # <<>>
       /\ mine[Len(mine)].msg.command = "RPL_ENDOFWHO"
       /\ \A i \in 1 .. Len(mine) - 1 : mine[i].msg.command = "RPL_WHOREPLY"

\* C26: every WHO request is answered with replies that end with exactly
\* one RPL_ENDOFWHO, by the server when the mask names no channel and by the
\* channel's actor when it names one; for a Secret or Private channel the
\* sender is not in, the answer is RPL_ENDOFWHO alone.
C26_WhoEnds ==
    [][/\ (/\ ServerHandles
           /\ Head(serverq).handler.cmd = "WHO"
           /\ Head(serverq).id \in users
           /\ Head(serverq).handler.mask \notin channels) =>
              EndsWho(sent', Head(serverq).id)
       /\ \A c \in ChanNames :
             ActorRuns(c, "handle_who") =>
                LET id == Head(mailbox[c]).client
                IN /\ EndsWho(sent', id)
                   /\ (/\ chan[c].flags \cap {Secret, Private} # {}
                       /\ id \notin DOMAIN chan[c].nicknames) =>
                          OnlyReply(sent', id, "RPL_ENDOFWHO")]_vars

\* C27: every PING with a token from a registered user is answered with one
\* PONG message that carries the server name and the token, put on that
\* user's write queue; a PONG produces no reply.
C27_PingPong ==
    [][(ServerHandles /\ Head(serverq).id \in users) =>
          LET id == Head(serverq).id
              h == Head(serverq).handler
          IN /\ (h.cmd = "PING" /\ h.payload # None) =>
                    /\ OnlyReply(sent', id, "PONG")
                    /\ sent'[1].msg.params = <<Host, h.payload.val>>
             /\ h.cmd = "PONG" => sent' = <<>>]_vars

\* the step that has just run is op
Called(op) == result # None /\ result.val.op = op

NoCommand(line) ==
    \/ line = <<>>
    \/ /\ starts_with(line, <<":">>)
       /\ \A i \in 1 .. Len(line) - 1 : line[i] # " "

\* C29: parse returns an error for every line without a command (the empty
\* line, a prefix alone with or without a space after it) and never returns
\* a message with an empty command.
C29_NoCommandIsError ==
    Called("parse") =>
        /\ NoCommand(arg.line) => result.val.msg = Err
        /\ result.val.msg.tag = "Ok" =>
              RawMessage_command(result.val.msg.val) # <<>>

\* C30: for every message, with or without a prefix, set_prefix(p) makes
\* prefix() return p and leaves command() and params() as they were; the
\* buffer becomes ':' p ' ' followed by the old buffer from the command on.
C30_SetPrefix ==
    Called("set_prefix") =>
        LET before == result.val.before
            after == result.val.msg.val
            p == result.val.new_prefix
        IN /\ RawMessage_prefix(after) = Some(p)
           /\ RawMessage_command(after) = RawMessage_command(before)
           /\ RawMessage_params(after) = RawMessage_params(before)
           /\ as_slice(after) =
                 <<":">> \o p \o <<" ">>
                 \o slice_from(as_slice(before), before.command.start)

\* two messages agree in the buffer and in what the accessors return
SameMessage(m1, m2) ==
    /\ as_slice(m1) = as_slice(m2)
    /\ RawMessage_prefix(m1) = RawMessage_prefix(m2)
    /\ RawMessage_command(m1) = RawMessage_command(m2)
    /\ RawMessage_params(m1) = RawMessage_params(m2)

\* C31: for every message and all prefixes p1 and p2, set_prefix(p1)
\* followed by set_prefix(p2) gives the buffer, prefix, command and params
\* that set_prefix(p2) alone gives, also when p2 is shorter than p1.
C31_LastPrefixWins ==
    Called("set_prefix_again") =>
        SameMessage(result.val.msg.val,
                    RawMessage_set_prefix(result.val.before, result.val.new_prefix))

\* the nickname grammar: 1 to 9 characters, a letter or a special character
\* first, then letters, digits, special characters and '-'
NickGrammar(nick) ==
    /\ Len(nick) \in 1 .. 9
    /\ nick[1] \in Lower \cup Upper \cup Special
    /\ \A i \in 2 .. Len(nick) :
          nick[i] \in Lower \cup Upper \cup Digit \cup Special \cup {"-"}

\* C32: valid_nick accepts a string exactly when it has 1 to 9 characters,
\* starts with a letter or a special character and goes on with letters,
\* digits, special characters or '-'; the empty string is rejected.
C32_ValidNick ==
    Called("valid_nick") => (result.val.value <=> NickGrammar(arg.name))

\* the channel name grammar: '#' or '&' first, at least one more character,
\* no space, comma or 0x07
ChannelGrammar(name) ==
    /\ Len(name) >= 2
    /\ name[1] \in {"#", "&"}
    /\ \A i \in 1 .. Len(name) : name[i] \notin {" ", "bel", ","}

\* C33: valid_channel accepts a name exactly when it starts with '#' or
\* '&', holds no space, comma or 0x07 and has at least 2 characters, so
\* verify_receiver classifies neither "#" nor the empty name as ChannelName.
C33_ValidChannel ==
    /\ Called("valid_channel") => (result.val.value <=> ChannelGrammar(arg.name))
    /\ Called("verify_receiver") =>
          (result.val.value.kind = "ChannelName" => ChannelGrammar(arg.name))

\* s matches pat, where each '*' of pat stands for any run of characters
RECURSIVE FnMatch(_, _)
FnMatch(pat, str) ==
    IF pat = <<>> THEN str = <<>>
    ELSE IF Head(pat) = "*"
         THEN \E k \in 0 .. Len(str) :
                 FnMatch(Tail(pat), SubSeq(str, k + 1, Len(str)))
         ELSE /\ str # <<>>
              /\ Head(str) = Head(pat)
              /\ FnMatch(Tail(pat), Tail(str))

\* C34: HostMask::matches(s) is true exactly when s matches the mask as a
\* pattern whose only wildcard is '*', each '*' standing for any, possibly
\* empty, run of characters.
C34_MatchesIsFnMatch ==
    Called("matches") => (result.val.value <=> FnMatch(arg.mask, arg.host))

\* C38: RPL_WELCOME is sent at most once per connection: when the server
\* handles a NICK or a USER of a connection that is already a registered
\* user, no RPL_WELCOME is sent and add_user does not run again, so nicks
\* and users stay as they are.
C38_WelcomeOnce ==
    [][(/\ ServerHandles
        /\ Head(serverq).id \in users
        /\ Head(serverq).handler.cmd \in {"NICK", "USER"}) =>
           /\ ~HasMessage(sent', "RPL_WELCOME")
           /\ nicks' = nicks
           /\ users' = users]_vars

\* the actor of c takes a MODE with tokens, sent by an operator of c
OperatorModeRuns(c) ==
    /\ c \in DOMAIN chan
    /\ mailbox[c] # <<>>
    /\ Head(mailbox[c]).fn = "handle_mode"
    /\ Len(Head(mailbox[c]).params) > 1
    /\ IsOperator(chan[c], Head(mailbox[c]).proxy)
    /\ mailbox'[c] \in {<<>>, Tail(mailbox[c])}

\* C40: a MODE of an operator never makes the channel actor fail, whatever
\* its tokens are, an empty token included: after the actor has applied it
\* the actor is still running and takes later events.
C40_ModeNeverFails ==
    [][\A c \in ChanNames : OperatorModeRuns(c) => c \in DOMAIN chan']_vars

\* the actor of c is running and its channel has members
LiveWithMembers(c) ==
    /\ c \in DOMAIN chan
    /\ DOMAIN chan[c].nicknames # {}

\* C39: a ChannelLost event removes the directory entry only of a channel
\* whose actor has exited: a channel whose actor is running and has
\* members is never removed from the directory.
C39_OnlyDeadRemoved ==
    [][\A c \in ChanNames :
          (c \in channels /\ c \notin channels') => ~LiveWithMembers(c)]_vars

\* the events the handler at the head of the server's queue sends to proxies
HeadSends ==
    IF Head(serverq).id \in users
    THEN invoke(ServerState, Head(serverq).id, Head(serverq).handler).sends
    ELSE <<>>

\* the step is the server handling the message at the head of its queue,
\* whose handler sends to the proxy of c while the actor of c has exited
SendFails(c) ==
    /\ serverq # <<>>
    /\ Head(serverq).type = "MessageReceived"
    /\ Len(serverq') <= Len(serverq)
    /\ SubSeq(serverq', 1, Len(serverq) - 1) = Tail(serverq)
    /\ c \in channels
    /\ c \notin DOMAIN chan
    /\ \E i \in 1 .. Len(HeadSends) : HeadSends[i].channel = c

ChannelLost(c) == [type |-> "ChannelLost", name |-> c]

InQueue(e) == \E i \in 1 .. Len(serverq) : serverq[i] = e

\* C35: a send through the proxy of a channel whose actor has exited puts
\* ChannelLost(name) on the server's queue; the server handling a
\* ChannelLost(name) leaves the directory without the name; so a
\* ChannelLost(name) in the queue leads to a directory without the name.
C35_DeadProxyRemoved ==
    /\ [][\A c \in ChanNames :
            SendFails(c) =>
                /\ serverq' # <<>>
                /\ serverq'[Len(serverq')] = ChannelLost(c)]_vars
    /\ [][\A c \in ChanNames :
            (serverq # <<>> /\ Head(serverq) = ChannelLost(c)
                /\ serverq' = Tail(serverq)) => c \notin channels']_vars
    /\ \A c \in ChanNames : InQueue(ChannelLost(c)) ~> (c \notin channels)

\* the actor of #a has exited and its proxy has been removed
C35_Witness ==
    /\ ChanA \in DOMAIN mailbox
    /\ ChanA \notin DOMAIN chan
    /\ ChanA \notin channels

\* the commands of a message that are not numeric replies
NamedCommands ==
    {"NICK", "USER", "JOIN", "PART", "QUIT", "MODE", "PRIVMSG", "NOTICE",
     "TOPIC", "NAMES", "WHO", "PING", "PONG"}

NumericReplies(out) ==
    {i \in 1 .. Len(out) : out[i].msg.command \notin NamedCommands}

\* C36: every numeric reply put on the queue of a client, by the reader
\* task, by a handler of the server or by a channel actor, has the
\* hostname of the server as prefix and the current nick of the recipient
\* ('*' before a nick is set) as first parameter.
C36_ReplyShape ==
    \A i \in NumericReplies(sent) :
        /\ sent[i].msg.prefix = Some(Host)
        /\ sent[i].msg.params # <<>>
        /\ sent[i].msg.params[1] = info[sent[i].to].nick

\* the server has entered id in its directory, now or before it closed it
Entered(id) == id \in connections \/ phase[id] = "closed"

\* C37: for every connection the server's queue gets Connected before any
\* MessageReceived with the same id: a MessageReceived in the queue is of a
\* connection that the server has entered in its directory or whose
\* Connected is in the queue before it.  Hence the message at the head of
\* the queue is never of an id the server has not yet entered.
C37_ConnectedFirst ==
    \A i \in 1 .. Len(serverq) :
        serverq[i].type = "MessageReceived" =>
            \/ Entered(serverq[i].id)
            \/ \E j \in 1 .. i - 1 :
                  serverq[j] = [type |-> "Connected", id |-> serverq[i].id]

\* a line of a connection waits in the queue behind its Connected
C37_Witness ==
    \E i \in 1 .. Len(serverq) : \E j \in 1 .. i - 1 :
        /\ serverq[i].type = "MessageReceived"
        /\ serverq[j] = [type |-> "Connected", id |-> serverq[i].id]
        /\ ~Entered(serverq[i].id)

====
